---- MODULE Spec2Model ----
(***************************************************************************)
(* Minecraft map-art ditherer: the palette (src/src/palette.py), the       *)
(* Floyd-Steinberg sweep (src/src/dithering.py) and the image preparation  *)
(* it calls (src/src/image_utils.py).                                      *)
(*                                                                         *)
(* Numbers.  The working buffer is float64 in the source.  Every value it  *)
(* ever holds is an 8-bit integer plus a sum of products error * k/16 with *)
(* integer error, which float64 represents exactly, so the model keeps the *)
(* working buffer in sixteenths (an integer 0..4080 per channel).          *)
(* The CIELab conversion is the library call cspace_convert; it is modelled*)
(* in fixed point (sRGB linearisation table, D65 matrix, cube root).       *)
(* np.sqrt is strictly monotone on the sums compared, so np.argmin over    *)
(* the distances is the argmin over the sums of squares.                   *)
(***************************************************************************)
EXTENDS Integers, Sequences, FiniteSets, TLC

VARIABLES
    pc,                 \* "new", "raised", "idle", "sweep", "done", "error": where the
                        \* first ditherer object is
    ctor_arg,           \* the custom_colors argument the ditherer was constructed with
    CARPET_COLORS,      \* palette.CARPET_COLORS as seen through the ditherer's palette object
    colors_rgb,         \* palette.colors_rgb
    colors_lab,         \* palette.colors_lab
    progress_callback,  \* "none" or "set": self.progress_callback
    processed_pixels,   \* self.processed_pixels
    total_pixels,       \* self.total_pixels
    call,               \* the arguments of the current (or last) dither_image call
    width, height,      \* locals of dither_image
    image_array,        \* the working buffer (sixteenths)
    output_array,       \* the output buffer
    x, y,               \* loop position of the sweep
    visited_rgb,        \* current_rgb of every pixel already visited in this call
    step,               \* the last pixel step: its pixel, its error, the writes it made
    notified,           \* the (processed, total) pairs the observer received during this call
    result,             \* what the call returned
    lookup,             \* the last direct call of palette.find_closest_color and its result
    remembered,         \* one earlier completed call: its arguments, the image it returned,
                        \* and whether another call has begun since
    observer_raised,    \* the progress observer raised during the current (or last) call
    comparison,         \* the locals original and quantized of dither_with_comparison
    class_CARPET_COLORS, \* the class attribute MinecraftPalette.CARPET_COLORS
    other,              \* a second ditherer object: its palette and its counters
    info,               \* what get_palette_info / save_palette_preview last returned
    runs,               \* two invocations of dither_image that run concurrently
    cli,                \* one run of the command-line tool: dither_cli.main
    gui,                \* the window of the GUI: DithererGUI, its queues and its worker
    validation          \* the last call of validate_image_for_processing and its result

vars == <<pc, ctor_arg, CARPET_COLORS, colors_rgb, colors_lab, progress_callback,
          processed_pixels, total_pixels, call, width, height, image_array,
          output_array, x, y, visited_rgb, step, notified, result, lookup, remembered,
          observer_raised, comparison, class_CARPET_COLORS, other, info, runs,
          cli, gui, validation>>

paletteVars == <<CARPET_COLORS, colors_rgb, colors_lab>>
runVars == <<processed_pixels, total_pixels, call, width, height, image_array,
             output_array, x, y, visited_rgb, step, notified, result,
             observer_raised, comparison>>
\* what belongs to no single call of the first ditherer
otherVars == <<other, info, runs>>
\* everything but the programs that use a ditherer
dithererVars == <<pc, ctor_arg, progress_callback, lookup, remembered, paletteVars,
                  runVars, class_CARPET_COLORS, otherVars>>
\* the programs that use a ditherer
hostVars == <<cli, gui, validation>>

----------------------------------------------------------------------------
(* Bounds of the model *)

\* largest source image width
MaxW == 3
\* largest source image height
MaxH == 3
\* largest number of pixels of a source image
MaxPixels == 6
\* Edge of the canvas the resize step produces.  The source's
\* MINECRAFT_MAP_SIZE is (128, 128); resize_for_minecraft is parametric in
\* map_size and the model runs it on a canvas of this edge.
MapEdge == 4
\* Reporting granularity of the sweep; the source reports every 1000 pixels.
ProgressBatch == 4
\* longest side of a source image that is larger than the canvas
MaxSourceSide == 9
\* largest number of runs the user starts in one window
MaxRuns == 2

----------------------------------------------------------------------------
(* Colours *)

\* a hex colour is the six hex digits that follow '#'
HexBlack == <<0,0,0,0,0,0>>
HexWhite == <<15,15,15,15,15,15>>
HexGrey  == <<8,0,8,0,8,0>>
HexNearBlack == <<0,2,0,2,0,2>>

\* palette.py:15-25
DEFAULT_CARPET_COLORS == <<
    <<13,12,0,0,0,0>>, <<10,3,2,9,2,10>>, <<8,4,2,12,2,12>>, <<8,10,4,2,4,3>>, <<7,10,3,3,2,7>>, <<6,0,0,1,0,0>>, <<4,15,1,5,1,9>>,
    <<11,10,6,13,2,12>>, <<10,0,7,2,1,15>>, <<8,9,4,6,1,15>>, <<6,15,4,10,2,10>>, <<7,11,6,6,3,14>>, <<5,8,4,1,2,12>>, <<8,2,5,14,4,2>>,
    <<7,4,5,12,5,4>>, <<11,4,9,8,8,10>>, <<11,10,9,6,7,14>>, <<13,5,12,9,8,12>>, <<12,5,12,5,2,12>>, <<13,7,12,13,4,2>>, <<6,13,9,9,3,0>>,
    <<6,13,11,0,1,5>>, <<5,8,6,4,2,13>>, <<5,8,6,13,2,12>>, <<4,1,4,6,2,4>>, <<0,0,6,10,0,0>>, <<0,0,11,11,3,2>>, <<6,13,9,0,8,1>>,
    <<1,1,9,11,7,2>>, <<3,2,7,10,7,8>>, <<1,2,6,12,7,3>>, <<4,1,6,13,8,4>>, <<5,8,8,4,11,10>>, <<3,15,6,14,13,12>>, <<3,7,3,7,13,12>>,
    <<2,12,4,1,9,9>>, <<4,15,11,12,11,7>>, <<8,10,8,10,13,12>>, <<8,13,9,0,9,14>>, <<6,0,5,13,7,7>>, <<4,1,3,5,4,15>>, <<9,9,4,1,11,10>>,
    <<6,13,3,6,9,9>>, <<13,0,6,13,8,14>>, <<7,15,3,6,5,3>>, <<8,0,4,11,5,13>>, <<6,9,3,14,4,11>>, <<4,10,2,5,3,5>>, <<13,12,13,12,13,12>>,
    <<13,12,13,9,13,3>>, <<10,11,10,11,10,11>>, <<9,0,9,0,9,0>>, <<8,4,8,4,8,4>>, <<6,0,6,0,6,0>>, <<5,6,5,6,5,6>>, <<4,11,4,15,4,15>>,
    <<4,1,4,1,4,1>>, <<1,5,1,5,1,5>>, <<1,15,1,2,0,13>>, <<3,1,2,3,1,14>>, <<4,1,2,11,1,14>>
>>

\* the values of custom_colors the model constructs ditherers with
NoColors == [none |-> TRUE, colors |-> <<>>]
CustomColorChoices ==
    { NoColors,
      [none |-> FALSE, colors |-> <<>>],
      [none |-> FALSE, colors |-> <<HexBlack, HexWhite>>],
      [none |-> FALSE, colors |-> <<HexGrey, HexBlack, HexGrey, HexNearBlack>>] }

\* MinecraftPalette.hex_to_rgb
hex_to_rgb(hex_color) ==
    << 16 * hex_color[1] + hex_color[2],
       16 * hex_color[3] + hex_color[4],
       16 * hex_color[5] + hex_color[6] >>

\* sRGB1 -> linear, times 10^5, for the 256 channel values c/255
SRGB_LINEAR == <<
    0, 30, 61, 91, 121, 152, 182, 212, 243, 273, 304, 335, 368, 402, 439, 478,
    518, 561, 605, 651, 700, 750, 802, 857, 913, 972, 1033, 1096, 1161, 1229, 1298, 1370,
    1444, 1521, 1600, 1681, 1764, 1850, 1938, 2029, 2122, 2217, 2315, 2416, 2519, 2624, 2732, 2843,
    2956, 3071, 3190, 3310, 3434, 3560, 3689, 3820, 3955, 4092, 4231, 4374, 4519, 4667, 4817, 4971,
    5127, 5286, 5448, 5613, 5781, 5951, 6125, 6301, 6480, 6663, 6848, 7036, 7227, 7421, 7619, 7819,
    8022, 8228, 8438, 8650, 8866, 9084, 9306, 9531, 9759, 9990, 10224, 10462, 10702, 10946, 11193, 11444,
    11697, 11954, 12214, 12477, 12744, 13014, 13287, 13563, 13843, 14126, 14413, 14703, 14996, 15293, 15593, 15896,
    16203, 16513, 16827, 17144, 17465, 17789, 18116, 18447, 18782, 19120, 19462, 19807, 20156, 20508, 20864, 21223,
    21586, 21953, 22323, 22697, 23074, 23455, 23840, 24228, 24620, 25016, 25415, 25818, 26225, 26636, 27050, 27468,
    27889, 28315, 28744, 29177, 29614, 30054, 30499, 30947, 31399, 31855, 32314, 32778, 33245, 33716, 34191, 34670,
    35153, 35640, 36131, 36625, 37124, 37626, 38133, 38643, 39157, 39676, 40198, 40724, 41254, 41789, 42327, 42869,
    43415, 43966, 44520, 45079, 45641, 46208, 46778, 47353, 47932, 48515, 49102, 49693, 50289, 50888, 51492, 52100,
    52712, 53328, 53948, 54572, 55201, 55834, 56471, 57112, 57758, 58408, 59062, 59720, 60383, 61050, 61721, 62396,
    63076, 63760, 64448, 65141, 65837, 66539, 67244, 67954, 68669, 69387, 70110, 70838, 71569, 72306, 73046, 73791,
    74540, 75294, 76052, 76815, 77582, 78354, 79130, 79910, 80695, 81485, 82279, 83077, 83880, 84687, 85499, 86316,
    87137, 87962, 88792, 89627, 90466, 91310, 92158, 93011, 93869, 94731, 95597, 96469, 97345, 98225, 99110, 100000
>>

\* largest k in lo..hi with k^3 <= n
RECURSIVE CubeRootIn(_, _, _)
CubeRootIn(n, lo, hi) ==
    IF lo = hi THEN lo
    ELSE LET mid == (lo + hi + 1) \div 2
         IN  IF mid * mid * mid <= n THEN CubeRootIn(n, mid, hi)
                                     ELSE CubeRootIn(n, lo, mid - 1)

\* the CIELab function f, times 1000, of t given times 10^9
LabF(t9) ==
    IF t9 > 8856452 THEN CubeRootIn(t9, 0, 1010)
    ELSE (7787 * (t9 \div 1000)) \div 1000000 + 138

\* MinecraftPalette.rgb_to_lab: <<L, a, b>> in hundredths.  The rows are the
\* sRGB -> XYZ matrix divided by the D65 white point (0.95047, 1, 1.08883),
\* times 10^4; L = 116 fy - 16, a = 500 (fx - fy), b = 200 (fy - fz).
rgb_to_lab(rgb) ==
    LET r  == SRGB_LINEAR[rgb[1] + 1]
        g  == SRGB_LINEAR[rgb[2] + 1]
        b  == SRGB_LINEAR[rgb[3] + 1]
        fx == LabF(4339 * r + 3762 * g + 1899 * b)
        fy == LabF(2126 * r + 7152 * g +  722 * b)
        fz == LabF( 177 * r + 1095 * g + 8730 * b)
    IN  << (116 * fy - 16000) \div 10, 50 * (fx - fy), 20 * (fy - fz) >>

\* np.sum((a - b) ** 2): the sum of squared component differences
SumSq(a, b) ==
    (a[1] - b[1]) * (a[1] - b[1]) + (a[2] - b[2]) * (a[2] - b[2])
      + (a[3] - b[3]) * (a[3] - b[3])

\* np.argmin mutated: on equal distance the later entry wins
RECURSIVE ArgMinLast(_, _, _)
ArgMinLast(d, lo, hi) ==
    IF lo = hi THEN lo
    ELSE LET mid   == (lo + hi) \div 2
             left  == ArgMinLast(d, lo, mid)
             right == ArgMinLast(d, mid + 1, hi)
         IN  IF d[right] <= d[left] THEN right ELSE left

\* np.argmin mutated: the entry at the largest distance
RECURSIVE ArgMaxIn(_, _, _)
ArgMaxIn(d, lo, hi) ==
    IF lo = hi THEN lo
    ELSE LET mid   == (lo + hi) \div 2
             left  == ArgMaxIn(d, lo, mid)
             right == ArgMaxIn(d, mid + 1, hi)
         IN  IF d[right] > d[left] THEN right ELSE left

\* np.argmin over positions lo..hi of d: the position of the first minimum
\* (the earlier half wins unless the later half is strictly smaller)
RECURSIVE ArgMinIn(_, _, _)
ArgMinIn(d, lo, hi) ==
    IF lo = hi THEN lo
    ELSE LET mid   == (lo + hi) \div 2
             left  == ArgMinIn(d, lo, mid)
             right == ArgMinIn(d, mid + 1, hi)
         IN  IF d[right] < d[left] THEN right ELSE left

\* the distances find_closest_color_lab compares (squared)
LabDistances(target_rgb) ==
    LET target_lab == rgb_to_lab(target_rgb)
        n == Len(colors_lab)
    IN  SubSeq([i \in 1..n |-> SumSq(colors_lab[i], target_lab)], 1, n)

\* the distances find_closest_color_rgb compares (squared)
RgbDistances(target_rgb) ==
    LET n == Len(colors_rgb)
    IN  SubSeq([i \in 1..n |-> SumSq(colors_rgb[i], target_rgb)], 1, n)

\* MinecraftPalette.find_closest_color_lab: (index, rgb, hex), index 0-based
find_closest_color_lab(target_rgb) ==
    LET closest == ArgMinIn(LabDistances(target_rgb), 1, Len(colors_lab))
    IN  [idx |-> closest - 1, rgb |-> colors_rgb[closest], hex |-> CARPET_COLORS[closest]]

\* MinecraftPalette.find_closest_color_rgb
find_closest_color_rgb(target_rgb) ==
    LET closest == ArgMinIn(RgbDistances(target_rgb), 1, Len(colors_rgb))
    IN  [idx |-> closest - 1, rgb |-> colors_rgb[closest], hex |-> CARPET_COLORS[closest]]

\* MinecraftPalette.find_closest_color
find_closest_color(target_rgb, method) ==
    IF method = "lab" THEN find_closest_color_lab(target_rgb)
                      ELSE find_closest_color_rgb(target_rgb)

\* largest k in lo..hi with k^2 <= n
RECURSIVE SqrtIn(_, _, _)
SqrtIn(n, lo, hi) ==
    IF lo = hi THEN lo
    ELSE LET mid == (lo + hi + 1) \div 2
         IN  IF mid * mid <= n THEN SqrtIn(n, mid, hi)
                               ELSE SqrtIn(n, lo, mid - 1)

\* np.sqrt of a sum of squares, to the whole unit below
Sqrt(n) == SqrtIn(n, 0, 46340)

\* MinecraftPalette.calculate_color_distance: the Euclidean distance of two
\* colours, in Lab (hundredths) or in RGB
calculate_color_distance(color1_rgb, color2_rgb, method) ==
    IF method = "lab"
    THEN Sqrt(SumSq(rgb_to_lab(color1_rgb), rgb_to_lab(color2_rgb)))
    ELSE Sqrt(SumSq(color1_rgb, color2_rgb))

\* Python values of the types str and float: values of different types are
\* not equal
PyStr(s) == [type |-> "str", str |-> s, float |-> 0]
PyFloat(v) == [type |-> "float", str |-> <<>>, float |-> v]

\* the third element of the tuple as the distance of the entry found
closest_third_distance(closest_hex, distance) == PyFloat(distance)

\* the third element of the tuple find_closest_color_lab and
\* find_closest_color_rgb return (lines 83 and 97): closest_hex
closest_third(closest_hex, distance) == PyStr(closest_hex)

----------------------------------------------------------------------------
(* Images *)

\* the pixel coordinates of a w x h image, as numpy indexes them: <<row, column>>
Pixels(w, h) == (0..(h - 1)) \X (0..(w - 1))

\* the colours source pixels are drawn from
PixelColors == { <<128, 128, 128>>, <<200, 60, 20>> }

NoneImage == [none |-> TRUE, w |-> 0, h |-> 0, px |-> <<>>]

\* PIL images of w x h pixels, zero-sized ones included
ImagesOfSize(w, h) ==
    { [none |-> FALSE, w |-> w, h |-> h, px |-> f] : f \in [Pixels(w, h) -> PixelColors] }

SourceImages ==
    {NoneImage} \cup
    UNION { ImagesOfSize(w, h) :
              <<w, h>> \in { s \in (0..MaxW) \X (0..MaxH) : s[1] * s[2] <= MaxPixels } }

\* the arguments of a call of dither_image, and whether the call before it
\* on the same ditherer ended in an exception
NoCall == [kind |-> "none", image |-> NoneImage, resize |-> FALSE,
           map_width |-> 0, map_height |-> 0, after_error |-> FALSE]
PlainCall(image, resize) ==
    [kind |-> "dither", image |-> image, resize |-> resize,
     map_width |-> 0, map_height |-> 0, after_error |-> (pc = "error")]
TiledCall(image, mw, mh) ==
    [kind |-> "tiled", image |-> image, resize |-> TRUE,
     map_width |-> mw, map_height |-> mh, after_error |-> (pc = "error")]

\* Image.thumbnail(map_size) returns without resampling when the image
\* already fits
FitsCanvas(image, map_size) == image.w <= map_size[1] /\ image.h <= map_size[2]

\* an image whose pixels all have one colour
OneColour(image) == image.px = [p \in DOMAIN image.px |-> image.px[<<0, 0>>]]

\* the images the model resizes: those that fit the canvas, and larger ones
\* of one colour
Resizable(image, map_size) == FitsCanvas(image, map_size) \/ OneColour(image)

Abs(a) == IF a < 0 THEN -a ELSE a
Max(a, b) == IF a >= b THEN a ELSE b

\* The size Image.thumbnail(map_size) gives an image of w x h pixels (the
\* Pillow releases that have Image.Resampling): the image is left alone when
\* it fits; otherwise one side becomes the side of the box and the other
\* is round_aspect of the exact value: of its floor and its ceiling the one
\* whose ratio is nearer the aspect w / h (the floor when both are as
\* near, and a floor of 0 when the height is sought), and at least 1.
thumbnail_size(w, h, map_size) ==
    LET bx == map_size[1]
        by == map_size[2]
    IN  IF bx >= w /\ by >= h THEN <<w, h>>
        ELSE IF bx * h >= by * w
        THEN LET f == (by * w) \div h
                 c == IF f * h = by * w THEN f ELSE f + 1
                 n == IF Abs(w * by - f * h) <= Abs(w * by - c * h) THEN f ELSE c
             IN  <<Max(n, 1), by>>
        ELSE LET f == (bx * h) \div w
                 c == IF f * w = bx * h THEN f ELSE f + 1
                 n == IF f = 0 THEN f
                      ELSE IF Abs(w * f - bx * h) * c <= Abs(w * c - bx * h) * f
                           THEN f ELSE c
             IN  <<bx, Max(n, 1)>>

\* image_copy after image_copy.thumbnail(map_size, LANCZOS).  The
\* resampling filter is normalised: of an image of one colour it makes an
\* image of that colour.
thumbnail(image, map_size) ==
    LET size == thumbnail_size(image.w, image.h, map_size)
    IN  IF size = <<image.w, image.h>> THEN image
        ELSE [none |-> FALSE, w |-> size[1], h |-> size[2],
              px |-> [p \in Pixels(size[1], size[2]) |-> image.px[<<0, 0>>]]]

\* the content pasted at the top left corner of the canvas
paste_position_corner(map_size, size) == <<0, 0>>

\* lines 109-110: where the content is pasted, <<x, y>>
paste_position(map_size, size) ==
    <<(map_size[1] - size[1]) \div 2, (map_size[2] - size[2]) \div 2>>

\* ImageProcessor.resize_for_minecraft
resize_for_minecraft(image, map_size) ==
    LET image_copy == thumbnail(image, map_size)
        at == paste_position(map_size, <<image_copy.w, image_copy.h>>)
        ox == at[1]
        oy == at[2]
    IN  [none |-> FALSE, w |-> map_size[1], h |-> map_size[2],
         px |-> [p \in Pixels(map_size[1], map_size[2]) |->
                   IF /\ oy <= p[1] /\ p[1] < oy + image_copy.h
                      /\ ox <= p[2] /\ p[2] < ox + image_copy.w
                   THEN image_copy.px[<<p[1] - oy, p[2] - ox>>]
                   ELSE <<0, 0, 0>>]]

\* a working buffer that reuses the buffer of the previous call when the shapes agree
image_to_float_array_stale(image) ==
    IF DOMAIN image_array = Pixels(image.w, image.h) /\ image.w * image.h > 0
    THEN image_array
    ELSE [p \in Pixels(image.w, image.h) |->
            <<16 * image.px[p][1], 16 * image.px[p][2], 16 * image.px[p][3]>>]

\* ImageProcessor.image_to_array(image).astype(np.float64), in sixteenths
image_to_float_array(image) ==
    [p \in Pixels(image.w, image.h) |->
        <<16 * image.px[p][1], 16 * image.px[p][2], 16 * image.px[p][3]>>]

\* np.zeros_like(image_array, dtype=np.uint8)
zeros_like(image) == [p \in Pixels(image.w, image.h) |-> <<0, 0, 0>>]

NoResult == [none |-> TRUE, w |-> 0, h |-> 0, px |-> <<>>]

\* ImageProcessor.array_to_image: the uint8 array as an image
array_to_image(array, w, h) == [none |-> FALSE, w |-> w, h |-> h, px |-> array]

----------------------------------------------------------------------------
(* The sweep *)

\* an error matrix that diffuses nothing
error_matrix_zero == << <<0, 0, 0>>, <<0, 0, 0>> >>

\* self.error_matrix, in sixteenths
error_matrix == << <<0, 0, 7>>, <<3, 5, 1>> >>

\* a write that stores the sum as it is
Clip_deferred(v) == v

\* np.clip(new_value, 0, 255), in sixteenths
Clip(v) == IF v < 0 THEN 0 ELSE IF v > 4080 THEN 4080 ELSE v

\* a conversion to the nearest integer, halves upwards
AsInt_nearest(v) == <<(v[1] + 8) \div 16, (v[2] + 8) \div 16, (v[3] + 8) \div 16>>

\* image_array[y, x].astype(int): truncation of a non-negative float
AsInt(v) == <<v[1] \div 16, v[2] \div 16, v[3] \div 16>>

\* MinecraftDitherer._find_closest_color: (index, closest_rgb, error)
_find_closest_color(rgb) ==
    LET r == find_closest_color(rgb, "lab")
    IN  [idx |-> r.idx, rgb |-> r.rgb,
         error |-> <<rgb[1] - r.rgb[1], rgb[2] - r.rgb[2], rgb[3] - r.rgb[3]>>]

\* a row offset that reaches the row above and the row of the pixel itself
NeighborY_above(py, dy) == py + dy - 1

\* the neighbour the loop indexes (dy, dx) address: nx = x + dx - 1, ny = y + dy + 1
NeighborX(px, dx) == px + dx - 1
NeighborY(py, dy) == py + dy + 1

\* the bounds check without its lower column bound
InBoundsNoLeft(nx, ny, w, h) == nx < w /\ 0 <= ny /\ ny < h

\* the bounds check of _apply_error_diffusion
InBounds(nx, ny, w, h) == 0 <= nx /\ nx < w /\ 0 <= ny /\ ny < h

\* numpy indexing of an axis of length n: a negative index counts from the end
NumpyIndex(i, n) == IF i < 0 THEN i + n ELSE i

\* the k-th iteration (k = 1..6) of the two nested loops of
\* _apply_error_diffusion: <<dy, dx>> = <<0,0>>, <<0,1>>, <<0,2>>, <<1,0>>, ...
StencilDy(k) == (k - 1) \div 3
StencilDx(k) == (k - 1) % 3

\* the writes _apply_error_diffusion makes: the cell and the weighted error
\* (sixteenths, before clamping), in loop order
RECURSIVE StencilWrites(_, _, _, _, _, _)
StencilWrites(px, py, error, w, h, k) ==
    IF k > 6 THEN <<>>
    ELSE LET nx == NeighborX(px, StencilDx(k))
             ny == NeighborY(py, StencilDy(k))
             weight == error_matrix[StencilDy(k) + 1][StencilDx(k) + 1]
             rest == StencilWrites(px, py, error, w, h, k + 1)
         IN  IF InBounds(nx, ny, w, h) /\ weight > 0
             THEN <<[ny |-> ny, nx |-> nx,
                     amount |-> <<error[1] * weight, error[2] * weight, error[3] * weight>>]>>
                  \o rest
             ELSE rest

\* the buffer after the writes: image_array[ny, nx, c] is read and written for
\* each channel, clamped as it is written
RECURSIVE ApplyWrites(_, _, _, _, _)
ApplyWrites(array, writes, w, h, k) ==
    IF k > Len(writes) THEN array
    ELSE LET wr == writes[k]
             cell == <<NumpyIndex(wr.ny, h), NumpyIndex(wr.nx, w)>>
             old == array[cell]
         IN  ApplyWrites([array EXCEPT ![cell] =
                            << Clip(old[1] + wr.amount[1]),
                               Clip(old[2] + wr.amount[2]),
                               Clip(old[3] + wr.amount[3]) >>],
                         writes, w, h, k + 1)

\* MinecraftDitherer._apply_error_diffusion
_apply_error_diffusion(array, px, py, error, w, h) ==
    ApplyWrites(array, StencilWrites(px, py, error, w, h, 1), w, h, 1)

----------------------------------------------------------------------------
(* Construction *)

\* MinecraftPalette.__init__ over the colour list it finds in CARPET_COLORS
PaletteInit(colors) ==
    [raised |-> (Len(colors) = 0),
     rgb |-> [i \in 1..Len(colors) |-> hex_to_rgb(colors[i])],
     lab |-> [i \in 1..Len(colors) |-> rgb_to_lab(hex_to_rgb(colors[i]))]]

\* Python truth value of the custom_colors argument: None and [] are false
Truthy(custom_colors) == ~custom_colors.none /\ Len(custom_colors.colors) > 0

NoStep == [x |-> -1, y |-> -1, error |-> <<0, 0, 0>>, writes |-> <<>>]
NoLookup == [valid |-> FALSE, target |-> <<0, 0, 0>>, method |-> "lab",
             idx |-> 0, rgb |-> <<0, 0, 0>>, hex |-> HexBlack,
             third |-> PyStr(HexBlack)]
NoRemembered == [valid |-> FALSE, later |-> FALSE, call |-> NoCall, result |-> NoResult]
NoComparison == [valid |-> FALSE, original |-> NoneImage, quantized |-> NoResult,
                 source_after |-> <<>>]
NoOther == [made |-> FALSE, arg |-> NoColors, after_first |-> FALSE,
            CARPET_COLORS |-> <<>>, colors_rgb |-> <<>>,
            colors_lab |-> <<>>, processed_pixels |-> 0, total_pixels |-> 0]
NoInfo == [kind |-> "none", color_count |-> 0, colors |-> <<>>, saved |-> FALSE]
NoRun == [pc |-> "none", inst |-> 0, image |-> NoneImage, width |-> 0, height |-> 0,
          image_array |-> <<>>, output_array |-> <<>>, x |-> 0, y |-> 0,
          notified |-> <<>>, result |-> NoResult]

\* the command-line arguments when the tool has not been started
NoArgs == [given |-> FALSE, input |-> <<>>, exists |-> FALSE, opens |-> FALSE,
           image |-> NoneImage, comparison |-> FALSE, no_resize |-> FALSE,
           quiet |-> FALSE, palette_preview |-> FALSE]
\* the command-line tool has not been started
NoCli == [pc |-> "none", args |-> NoArgs, image |-> NoneImage, exit_code |-> -1,
          written |-> {}]
\* no worker thread
NoWorker == [kind |-> "none", at |-> "none", run |-> 0]

\* DithererGUI.__init__, lines 37-47, and the widgets of create_widgets: no
\* image, nothing in progress, empty queues, the three buttons disabled and
\* the resize box ticked.  run numbers the runs started so far and kind is
\* the kind of the last of them; the entries of the queues and the bar carry
\* the number of the run they come from; dialog is the message box the
\* monitor is showing
NewGui ==
    [pc |-> "ready", current_image |-> NoneImage, dithered_image |-> NoResult,
     processing |-> FALSE, dither_btn |-> "disabled", comparison_btn |-> "disabled",
     save_btn |-> "disabled", resize_var |-> TRUE,
     progress_var |-> [run |-> 0, percent |-> 0],
     progress_queue |-> <<>>, result_queue |-> <<>>,
     threads |-> 0, worker |-> NoWorker, run |-> 0, kind |-> "none",
     monitor |-> "idle", dialog |-> "", returned |-> ""]
\* no window of the GUI has been opened
NoGui == [NewGui EXCEPT !.pc = "none"]
\* no image validated yet
NoValidation == [called |-> FALSE, none |-> TRUE, size |-> <<0, 0>>, mode |-> "",
                 is_valid |-> FALSE, message |-> ""]

Init ==
    /\ pc = "new"
    /\ ctor_arg = NoColors
    /\ CARPET_COLORS = <<>>
    /\ colors_rgb = <<>>
    /\ colors_lab = <<>>
    /\ progress_callback = "none"
    /\ processed_pixels = 0
    /\ total_pixels = 0
    /\ call = NoCall
    /\ width = 0
    /\ height = 0
    /\ image_array = <<>>
    /\ output_array = <<>>
    /\ x = 0
    /\ y = 0
    /\ visited_rgb = <<>>
    /\ step = NoStep
    /\ notified = <<>>
    /\ result = NoResult
    /\ lookup = NoLookup
    /\ remembered = NoRemembered
    /\ observer_raised = FALSE
    /\ comparison = NoComparison
    /\ class_CARPET_COLORS = DEFAULT_CARPET_COLORS
    /\ other = NoOther
    /\ info = NoInfo
    /\ runs = [t \in 1..2 |-> NoRun]
    /\ cli = NoCli
    /\ gui = NoGui
    /\ validation = NoValidation

\* line 35 with the class attribute as its target
SetCarpetColorsOnClass(custom_colors) ==
    [class |-> custom_colors, instance |-> custom_colors]

\* self.palette.CARPET_COLORS = custom_colors (line 35): the assignment
\* gives the palette object an attribute of its own; the class attribute
\* keeps its list
SetCarpetColors(custom_colors) ==
    [class |-> class_CARPET_COLORS, instance |-> custom_colors]

\* MinecraftPalette.__init__ over the list of the class as palette.py
\* defines it
DefaultPalette == PaletteInit(DEFAULT_CARPET_COLORS)

\* MinecraftPalette.__init__ over a list of colours: the arrays of the default
\* list are the same each time they are built
PaletteOf(colors) ==
    IF colors = DEFAULT_CARPET_COLORS THEN DefaultPalette ELSE PaletteInit(colors)

\* the body of MinecraftDitherer.__init__, lines 31-37: MinecraftPalette()
\* reads the class attribute; with custom colours the palette is
\* initialised a second time over the list assigned to it
NewDitherer(custom_colors) ==
    LET default  == PaletteOf(class_CARPET_COLORS)
        assigned == SetCarpetColors(custom_colors.colors)
        custom   == Truthy(custom_colors) /\ ~default.raised
        palette  == IF custom THEN PaletteOf(assigned.instance) ELSE default
    IN  [raised |-> default.raised \/ palette.raised,
         class |-> IF custom THEN assigned.class ELSE class_CARPET_COLORS,
         CARPET_COLORS |-> IF custom THEN assigned.instance ELSE class_CARPET_COLORS,
         colors_rgb |-> palette.rgb,
         colors_lab |-> palette.lab]

\* MinecraftDitherer.__init__(custom_colors)
Construct(custom_colors) ==
    /\ pc = "new"
    /\ ctor_arg' = custom_colors
    /\ LET built == NewDitherer(custom_colors)
       IN  /\ class_CARPET_COLORS' = built.class
           /\ IF built.raised
              THEN /\ pc' = "raised"
                   /\ UNCHANGED paletteVars
              ELSE /\ pc' = "idle"
                   /\ CARPET_COLORS' = built.CARPET_COLORS
                   /\ colors_rgb' = built.colors_rgb
                   /\ colors_lab' = built.colors_lab
    /\ UNCHANGED <<progress_callback, lookup, remembered>>
    /\ UNCHANGED runVars
    /\ UNCHANGED otherVars

\* the states in which the caller can call the ditherer
Callable == {"idle", "done", "error"}

\* MinecraftDitherer.set_progress_callback(callback)
SetProgressCallback ==
    /\ pc \in Callable
    /\ progress_callback = "none"
    /\ progress_callback' = "set"
    /\ UNCHANGED <<pc, ctor_arg, lookup, remembered>>
    /\ UNCHANGED paletteVars
    /\ UNCHANGED runVars
    /\ UNCHANGED <<class_CARPET_COLORS, other, info, runs>>

\* _update_progress that reports only the first time it is called in a run
_update_progress_once(log, processed, total) ==
    IF progress_callback = "set" /\ log = <<>>
    THEN Append(log, <<processed, total>>) ELSE log

\* the log after MinecraftDitherer._update_progress reported (processed, total)
_update_progress(log, processed, total) ==
    IF progress_callback = "set" THEN Append(log, <<processed, total>>) ELSE log

\* the locals of a call that has not reached the sweep
ClearLocals ==
    /\ width' = 0
    /\ height' = 0
    /\ image_array' = <<>>
    /\ output_array' = <<>>
    /\ x' = 0
    /\ y' = 0
    /\ visited_rgb' = <<>>
    /\ step' = NoStep
    /\ notified' = <<>>
    /\ result' = NoResult
    /\ observer_raised' = FALSE
    /\ comparison' = NoComparison

\* a call that zeroes the counters before it raises
RaiseBeforeSweepResetting ==
    /\ pc' = "error"
    /\ processed_pixels' = 0
    /\ total_pixels' = 0
    /\ ClearLocals

\* an exception leaves dither_image before line 133: the counters keep their values
RaiseBeforeSweep ==
    /\ pc' = "error"
    /\ UNCHANGED <<processed_pixels, total_pixels>>
    /\ ClearLocals

\* lines 133-134 without the reset of the processed count
start_progress_keeping(h, w) ==
    [total_pixels |-> h * w, processed_pixels |-> processed_pixels]

\* lines 133-134: the counters at the start of a sweep over h rows of w pixels
start_progress(h, w) == [total_pixels |-> h * w, processed_pixels |-> 0]

\* dither_image, lines 121-139: from the call to the first iteration of the loop
DitherImage(image, resize_flag) ==
    /\ pc \in Callable
    /\ resize_flag => Resizable(image, <<MapEdge, MapEdge>>)
    /\ call' = PlainCall(image, resize_flag)
    /\ IF image.none
       THEN \* image.copy() on None (line 125 -> image_utils 102), or the
            \* unpacking of the shape () of np.array(None) (line 130)
            RaiseBeforeSweep
       ELSE LET prepared == IF resize_flag
                            THEN resize_for_minecraft(image, <<MapEdge, MapEdge>>)
                            ELSE image
            IN  /\ pc' = "sweep"
                /\ width' = prepared.w
                /\ height' = prepared.h
                /\ image_array' = image_to_float_array(prepared)
                /\ total_pixels' = start_progress(prepared.h, prepared.w).total_pixels
                /\ processed_pixels' = start_progress(prepared.h, prepared.w).processed_pixels
                /\ output_array' = zeros_like(prepared)
                /\ x' = 0
                /\ y' = 0
                /\ visited_rgb' = <<>>
                /\ step' = NoStep
                /\ notified' = <<>>
                /\ result' = NoResult
                /\ observer_raised' = FALSE
                /\ comparison' = NoComparison
    /\ remembered' = [remembered EXCEPT !.later = remembered.valid]
    /\ UNCHANGED <<ctor_arg, progress_callback, lookup>>
    /\ UNCHANGED paletteVars
    /\ UNCHANGED <<class_CARPET_COLORS, other, info, runs>>

\* dither_image called with map_width / map_height, as test_multimap.py calls
\* it: the signature of line 110 has no such parameters, Python raises
\* TypeError before the body runs
DitherImageTiled(image, mw, mh) ==
    /\ pc \in Callable
    /\ call' = TiledCall(image, mw, mh)
    /\ RaiseBeforeSweep
    /\ UNCHANGED <<ctor_arg, progress_callback, lookup, remembered>>
    /\ UNCHANGED paletteVars
    /\ UNCHANGED <<class_CARPET_COLORS, other, info, runs>>

\* the two for loops of lines 142-143 have run out
LoopDone == width = 0 \/ y >= height

\* one iteration of the loop body, lines 144-159
SweepPixel ==
    /\ pc = "sweep"
    /\ ~LoopDone
    /\ LET current_rgb == AsInt(image_array[<<y, x>>])
           found == _find_closest_color(current_rgb)
           processed == processed_pixels + 1
       IN  /\ output_array' = [output_array EXCEPT ![<<y, x>>] = found.rgb]
           /\ image_array' = _apply_error_diffusion(image_array, x, y, found.error,
                                                    width, height)
           /\ visited_rgb' = [p \in (DOMAIN visited_rgb) \cup {<<y, x>>} |->
                                IF p = <<y, x>> THEN current_rgb ELSE visited_rgb[p]]
           /\ step' = [x |-> x, y |-> y, error |-> found.error,
                       writes |-> StencilWrites(x, y, found.error, width, height, 1)]
           /\ processed_pixels' = processed
           /\ notified' = IF processed % ProgressBatch = 0
                          THEN _update_progress(notified, processed, total_pixels)
                          ELSE notified
    /\ IF x + 1 < width THEN x' = x + 1 /\ y' = y
                        ELSE x' = 0 /\ y' = y + 1
    /\ UNCHANGED <<pc, ctor_arg, progress_callback, total_pixels, call, width, height,
                   result, lookup, remembered, observer_raised, comparison>>
    /\ UNCHANGED paletteVars
    /\ UNCHANGED <<class_CARPET_COLORS, other, info, runs>>

\* an observer that raises, and the image returned all the same
ObserverRaisedPartial ==
    /\ pc' = "error"
    /\ observer_raised' = TRUE
    /\ result' = array_to_image(output_array, width, height)

\* the observer raises inside _update_progress (line 59): neither
\* _update_progress nor dither_image has a try block, the exception leaves
\* dither_image and line 168 is not reached
ObserverRaised ==
    /\ pc' = "error"
    /\ observer_raised' = TRUE
    /\ result' = NoResult

\* one iteration of the loop body whose report (lines 158-159) ends in an
\* exception raised by the observer
SweepPixelObserverRaises ==
    /\ pc = "sweep"
    /\ ~LoopDone
    /\ progress_callback = "set"
    /\ (processed_pixels + 1) % ProgressBatch = 0
    /\ LET current_rgb == AsInt(image_array[<<y, x>>])
           found == _find_closest_color(current_rgb)
       IN  /\ output_array' = [output_array EXCEPT ![<<y, x>>] = found.rgb]
           /\ image_array' = _apply_error_diffusion(image_array, x, y, found.error,
                                                    width, height)
           /\ visited_rgb' = [p \in (DOMAIN visited_rgb) \cup {<<y, x>>} |->
                                IF p = <<y, x>> THEN current_rgb ELSE visited_rgb[p]]
           /\ step' = [x |-> x, y |-> y, error |-> found.error,
                       writes |-> StencilWrites(x, y, found.error, width, height, 1)]
           /\ processed_pixels' = processed_pixels + 1
           /\ notified' = _update_progress(notified, processed_pixels + 1, total_pixels)
    /\ ObserverRaised
    /\ UNCHANGED <<ctor_arg, progress_callback, total_pixels, call, width, height,
                   x, y, lookup, remembered, comparison>>
    /\ UNCHANGED paletteVars
    /\ UNCHANGED <<class_CARPET_COLORS, other, info, runs>>

\* the final report (line 162) ends in an exception raised by the observer
FinishObserverRaises ==
    /\ pc = "sweep"
    /\ LoopDone
    /\ progress_callback = "set"
    /\ notified' = _update_progress(notified, processed_pixels, total_pixels)
    /\ ObserverRaised
    /\ UNCHANGED <<ctor_arg, progress_callback, processed_pixels, total_pixels, call,
                   width, height, image_array, output_array, x, y, visited_rgb, step,
                   lookup, remembered, comparison>>
    /\ UNCHANGED paletteVars
    /\ UNCHANGED <<class_CARPET_COLORS, other, info, runs>>

\* lines 161-168: the final report and the conversion of the output array
Finish ==
    /\ pc = "sweep"
    /\ LoopDone
    /\ notified' = _update_progress(notified, processed_pixels, total_pixels)
    /\ result' = array_to_image(output_array, width, height)
    /\ pc' = "done"
    /\ UNCHANGED <<ctor_arg, progress_callback, processed_pixels, total_pixels, call,
                   width, height, image_array, output_array, x, y, visited_rgb, step,
                   lookup, remembered, observer_raised, comparison>>
    /\ UNCHANGED paletteVars
    /\ UNCHANGED <<class_CARPET_COLORS, other, info, runs>>

\* lines 161-165 on an array without pixels: Image.fromarray rejects the
\* empty buffer in the Pillow releases that do not special-case size 0
FinishEmptyRaises ==
    /\ pc = "sweep"
    /\ LoopDone
    /\ width * height = 0
    /\ notified' = _update_progress(notified, processed_pixels, total_pixels)
    /\ pc' = "error"
    /\ UNCHANGED <<ctor_arg, progress_callback, processed_pixels, total_pixels, call,
                   width, height, image_array, output_array, x, y, visited_rgb, step,
                   result, lookup, remembered, observer_raised, comparison>>
    /\ UNCHANGED paletteVars
    /\ UNCHANGED <<class_CARPET_COLORS, other, info, runs>>

\* the loop body of _create_quantized_image with the error of the pixel
\* added to the next pixel of the row
quantize_pixel_pushing_error(arrays, p, w) ==
    LET closest_rgb == find_closest_color(arrays.image_array[p], "lab").rgb
        next == <<p[1], p[2] + 1>>
        old == arrays.image_array[p]
    IN  [image_array |->
            IF p[2] + 1 < w
            THEN [arrays.image_array EXCEPT ![next] =
                    << (@[1] + old[1] - closest_rgb[1]) % 256,
                       (@[2] + old[2] - closest_rgb[2]) % 256,
                       (@[3] + old[3] - closest_rgb[3]) % 256 >>]
            ELSE arrays.image_array,
         output_array |-> [arrays.output_array EXCEPT ![p] = closest_rgb]]

\* the loop body of _create_quantized_image, lines 204-206: the pixel is read
\* from the array of the image and its nearest colour written to the output
quantize_pixel(arrays, p, w) ==
    [image_array |-> arrays.image_array,
     output_array |-> [arrays.output_array EXCEPT ![p] =
                         find_closest_color(arrays.image_array[p], "lab").rgb]]

\* the two loops of lines 202-203 from the k-th pixel in row-major order on
RECURSIVE QuantizeLoop(_, _, _, _)
QuantizeLoop(arrays, w, h, k) ==
    IF k >= w * h THEN arrays
    ELSE QuantizeLoop(quantize_pixel(arrays, <<k \div w, k % w>>, w), w, h, k + 1)

\* MinecraftDitherer._create_quantized_image: the image it returns, and the
\* array of the source image as the loops leave it
_create_quantized_image(image) ==
    LET arrays == QuantizeLoop([image_array |-> image.px, output_array |-> zeros_like(image)],
                               image.w, image.h, 0)
    IN  [quantized |-> array_to_image(arrays.output_array, image.w, image.h),
         source_after |-> arrays.image_array]

\* line 191 with the image of the caller in the place of original
comparison_dither_input_source(image, original) == image

\* line 191: the image dither_with_comparison hands to dither_image
comparison_dither_input(image, original) == original

ComparisonCall(image, resize) ==
    [kind |-> "comparison", image |-> image, resize |-> resize,
     map_width |-> 0, map_height |-> 0, after_error |-> (pc = "error")]

\* dither_with_comparison, lines 181-191, and lines 121-139 of the call of
\* dither_image(original, resize_for_minecraft=False) it ends with, up to
\* the first iteration of the loop
DitherWithComparison(image, resize_flag) ==
    /\ pc \in Callable
    /\ resize_flag => Resizable(image, <<MapEdge, MapEdge>>)
    /\ call' = ComparisonCall(image, resize_flag)
    /\ IF image.none
       THEN \* image.copy() on None (line 185, or line 183 -> image_utils 102)
            RaiseBeforeSweep
       ELSE LET original == IF resize_flag
                            THEN resize_for_minecraft(image, <<MapEdge, MapEdge>>)
                            ELSE image
                q == _create_quantized_image(original)
                prepared == comparison_dither_input(image, original)
            IN  /\ pc' = "sweep"
                /\ comparison' = [valid |-> TRUE, original |-> original,
                                  quantized |-> q.quantized,
                                  source_after |-> q.source_after]
                /\ width' = prepared.w
                /\ height' = prepared.h
                /\ image_array' = image_to_float_array(prepared)
                /\ total_pixels' = start_progress(prepared.h, prepared.w).total_pixels
                /\ processed_pixels' = start_progress(prepared.h, prepared.w).processed_pixels
                /\ output_array' = zeros_like(prepared)
                /\ x' = 0
                /\ y' = 0
                /\ visited_rgb' = <<>>
                /\ step' = NoStep
                /\ notified' = <<>>
                /\ result' = NoResult
                /\ observer_raised' = FALSE
    /\ remembered' = [remembered EXCEPT !.later = remembered.valid]
    /\ UNCHANGED <<ctor_arg, progress_callback, lookup>>
    /\ UNCHANGED paletteVars
    /\ UNCHANGED <<class_CARPET_COLORS, other, info, runs>>

\* dither_with_comparison on an image without pixels, taken as it is: line
\* 208 hands an empty array to Image.fromarray, which rejects it in the
\* Pillow releases that do not special-case size 0
DitherWithComparisonEmptyRaises(image) ==
    /\ pc \in Callable
    /\ ~image.none
    /\ image.w * image.h = 0
    /\ call' = ComparisonCall(image, FALSE)
    /\ RaiseBeforeSweep
    /\ remembered' = [remembered EXCEPT !.later = remembered.valid]
    /\ UNCHANGED <<ctor_arg, progress_callback, lookup>>
    /\ UNCHANGED paletteVars
    /\ UNCHANGED <<class_CARPET_COLORS, other, info, runs>>

\* the loop of lines 142-154 from the k-th pixel in row-major order on, with
\* no step of another invocation between its iterations
RECURSIVE SweepLoop(_, _, _, _)
SweepLoop(arrays, w, h, k) ==
    IF k >= w * h THEN arrays
    ELSE LET py == k \div w
             px == k % w
             found == _find_closest_color(AsInt(arrays.image_array[<<py, px>>]))
         IN  SweepLoop([image_array |-> _apply_error_diffusion(arrays.image_array, px, py,
                                                               found.error, w, h),
                        output_array |-> [arrays.output_array EXCEPT ![<<py, px>>] = found.rgb]],
                       w, h, k + 1)

\* what dither_image(image, resize_for_minecraft=False) returns when it runs alone
dither_alone(image) ==
    array_to_image(SweepLoop([image_array |-> image_to_float_array(image),
                              output_array |-> zeros_like(image)],
                             image.w, image.h, 0).output_array,
                   image.w, image.h)

\* MinecraftDitherer.__init__(custom_colors) for a second ditherer object
ConstructOther(custom_colors) ==
    /\ pc \in {"new"} \cup Callable
    /\ LET built == NewDitherer(custom_colors)
       IN  /\ class_CARPET_COLORS' = built.class
           /\ other' = IF built.raised THEN NoOther
                        ELSE [made |-> TRUE, arg |-> custom_colors,
                              after_first |-> (pc # "new"),
                              CARPET_COLORS |-> built.CARPET_COLORS,
                              colors_rgb |-> built.colors_rgb,
                              colors_lab |-> built.colors_lab,
                              processed_pixels |-> 0, total_pixels |-> 0]
    /\ UNCHANGED <<pc, ctor_arg, progress_callback, lookup, remembered, info, runs>>
    /\ UNCHANGED paletteVars
    /\ UNCHANGED runVars

\* MinecraftDitherer.get_palette_info(), lines 212-217: the number of
\* colours and a copy of the list of colours
GetPaletteInfo ==
    /\ pc \in Callable
    /\ info' = [kind |-> "info", color_count |-> Len(CARPET_COLORS),
                colors |-> CARPET_COLORS, saved |-> FALSE]
    /\ UNCHANGED <<pc, ctor_arg, progress_callback, lookup, remembered>>
    /\ UNCHANGED paletteVars
    /\ UNCHANGED runVars
    /\ UNCHANGED <<class_CARPET_COLORS, other, runs>>

\* MinecraftDitherer.save_palette_preview(output_path), lines 230-267: one
\* swatch for each colour of the list; True when the file was written, False
\* when drawing or writing raised
SavePalettePreview(written) ==
    /\ pc \in Callable
    /\ info' = [kind |-> "preview", color_count |-> Len(CARPET_COLORS),
                colors |-> CARPET_COLORS, saved |-> written]
    /\ UNCHANGED <<pc, ctor_arg, progress_callback, lookup, remembered>>
    /\ UNCHANGED paletteVars
    /\ UNCHANGED runVars
    /\ UNCHANGED <<class_CARPET_COLORS, other, runs>>

\* counters kept in one place for every ditherer
counters_of_module(inst) == 1

\* self.processed_pixels and self.total_pixels are attributes of the
\* ditherer the call is made on: ditherer 1 is the first ditherer, ditherer 2
\* the second
counters_of(inst) == inst

\* the counters of the ditherer whose counters are those of number c
ReadCounters(c) ==
    IF c = 1 THEN [processed_pixels |-> processed_pixels, total_pixels |-> total_pixels]
             ELSE [processed_pixels |-> other.processed_pixels,
                   total_pixels |-> other.total_pixels]

\* the assignment of the counters of the ditherer whose counters are those of number c
WriteCounters(c, processed, total) ==
    IF c = 1
    THEN /\ processed_pixels' = processed
         /\ total_pixels' = total
         /\ UNCHANGED other
    ELSE /\ other' = [other EXCEPT !.processed_pixels = processed,
                                    !.total_pixels = total]
         /\ UNCHANGED <<processed_pixels, total_pixels>>

\* what no concurrent invocation touches: the locals of the calls made one
\* after the other, the palettes, the observer registration
ConcurrentFrame ==
    /\ UNCHANGED <<pc, ctor_arg, progress_callback, lookup, remembered, info,
                   class_CARPET_COLORS>>
    /\ UNCHANGED paletteVars
    /\ UNCHANGED <<call, width, height, image_array, output_array, x, y, visited_rgb,
                   step, notified, result, observer_raised, comparison>>

\* invocation t of dither_image(image, resize_for_minecraft=False) on
\* ditherer inst, lines 121-139.  Two ditherers exist, the second constructed
\* with the arguments of the first and given the same observer.
StartRun(t, inst, image) ==
    /\ pc = "idle"
    /\ progress_callback = "set"
    /\ runs[t].pc = "none"
    /\ other.made /\ other.arg = ctor_arg
    /\ runs' = [runs EXCEPT ![t] =
                  [pc |-> "sweep", inst |-> inst, image |-> image,
                   width |-> image.w, height |-> image.h,
                   image_array |-> image_to_float_array(image),
                   output_array |-> zeros_like(image), x |-> 0, y |-> 0,
                   notified |-> <<>>, result |-> NoResult]]
    /\ WriteCounters(counters_of(inst),
                     start_progress(image.h, image.w).processed_pixels,
                     start_progress(image.h, image.w).total_pixels)
    /\ ConcurrentFrame

\* one iteration of the loop body (lines 144-159) of invocation t
RunPixel(t) ==
    LET r == runs[t]
        current_rgb == AsInt(r.image_array[<<r.y, r.x>>])
        found == _find_closest_color(current_rgb)
        counters == ReadCounters(counters_of(r.inst))
        processed == counters.processed_pixels + 1
    IN  /\ r.pc = "sweep"
        /\ r.width > 0 /\ r.y < r.height
        /\ runs' = [runs EXCEPT ![t] =
                      [r EXCEPT
                         !.output_array = [@ EXCEPT ![<<r.y, r.x>>] = found.rgb],
                         !.image_array = _apply_error_diffusion(@, r.x, r.y, found.error,
                                                                r.width, r.height),
                         !.notified = IF processed % ProgressBatch = 0
                                      THEN _update_progress(@, processed,
                                                            counters.total_pixels)
                                      ELSE @,
                         !.x = IF r.x + 1 < r.width THEN r.x + 1 ELSE 0,
                         !.y = IF r.x + 1 < r.width THEN r.y ELSE r.y + 1]]
        /\ WriteCounters(counters_of(r.inst), processed, counters.total_pixels)
        /\ ConcurrentFrame

\* lines 161-168 of invocation t
RunFinish(t) ==
    LET r == runs[t]
        counters == ReadCounters(counters_of(r.inst))
    IN  /\ r.pc = "sweep"
        /\ r.width = 0 \/ r.y >= r.height
        /\ runs' = [runs EXCEPT ![t] =
                      [r EXCEPT
                         !.pc = "done",
                         !.notified = _update_progress(@, counters.processed_pixels,
                                                       counters.total_pixels),
                         !.result = array_to_image(r.output_array, r.width, r.height)]]
        /\ UNCHANGED <<processed_pixels, total_pixels, other>>
        /\ ConcurrentFrame

\* the caller keeps the image a completed call returned
Remember ==
    /\ pc = "done"
    /\ ~remembered.valid
    /\ remembered' = [valid |-> TRUE, later |-> FALSE, call |-> call, result |-> result]
    /\ UNCHANGED <<pc, ctor_arg, progress_callback, lookup>>
    /\ UNCHANGED paletteVars
    /\ UNCHANGED runVars
    /\ UNCHANGED <<class_CARPET_COLORS, other, info, runs>>

\* a direct call of palette.find_closest_color(target_rgb, method)
FindClosestColor(target_rgb, method) ==
    /\ pc \in Callable
    /\ LET r == find_closest_color(target_rgb, method)
       IN  lookup' = [valid |-> TRUE, target |-> target_rgb, method |-> method,
                      idx |-> r.idx, rgb |-> r.rgb, hex |-> r.hex,
                      third |-> closest_third(r.hex,
                                   calculate_color_distance(target_rgb, r.rgb, method))]
    /\ UNCHANGED <<pc, ctor_arg, progress_callback, remembered>>
    /\ UNCHANGED paletteVars
    /\ UNCHANGED runVars
    /\ UNCHANGED <<class_CARPET_COLORS, other, info, runs>>

---------------------------------------------------------------------------------------------------------------------------------------------------
(* Image validation, image_utils.py *)

\* a size check on each side, after MAX_SIZE
too_large_by_side(size) == size[1] > 2048 \/ size[2] > 2048

\* lines 231-232: total_pixels > 4194304
too_large(size) == size[1] * size[2] > 4194304

\* ImageProcessor.validate_image_for_processing: (is_valid, message)
validate_image_for_processing(image) ==
    IF image.none THEN <<FALSE, "Image is None">>
    ELSE IF image.size[1] = 0 \/ image.size[2] = 0
         THEN <<FALSE, "Image has zero dimensions">>
    ELSE IF image.mode \notin {"RGB", "RGBA", "L", "P"}
         THEN <<FALSE, "Unsupported image mode">>
    ELSE IF too_large(image.size)
         THEN <<FALSE, "Image is too large (max 2048x2048)">>
    ELSE <<TRUE, "Image is valid for processing">>

\* a caller validates an image
ValidateImage(image) ==
    /\ validation' = [called |-> TRUE, none |-> image.none, size |-> image.size,
                      mode |-> image.mode,
                      is_valid |-> validate_image_for_processing(image)[1],
                      message |-> validate_image_for_processing(image)[2]]
    /\ UNCHANGED <<cli, gui>>
    /\ UNCHANGED dithererVars

-----
(* The command-line tool, dither_cli.py *)

\* str.lower(), on the letters file names are written with in the model
LowerChar(ch) ==
    CASE ch = "P" -> "p" [] ch = "N" -> "n" [] ch = "G" -> "g" [] ch = "J" -> "j"
      [] OTHER -> ch
lower(str) == [i \in 1..Len(str) |-> LowerChar(str[i])]

\* the position of the last dot of a file name, 0 when it has none
LastDot(str) ==
    LET dots == { i \in 1..Len(str) : str[i] = "." }
    IN  IF dots = {} THEN 0 ELSE CHOOSE i \in dots : \A j \in dots : j <= i

\* os.path.splitext(file_path)[1]: the name from its last dot on, empty when
\* the name has no dot after its first character
splitext_ext(str) ==
    IF LastDot(str) <= 1 THEN <<>> ELSE SubSeq(str, LastDot(str), Len(str))

\* ImageProcessor.SUPPORTED_FORMATS
SUPPORTED_FORMATS ==
    { <<".", "p", "n", "g">>, <<".", "j", "p", "g">>, <<".", "j", "p", "e", "g">>,
      <<".", "b", "m", "p">>, <<".", "t", "i", "f", "f">>, <<".", "g", "i", "f">> }

\* ImageProcessor.is_supported_format
is_supported_format(file_path) == splitext_ext(lower(file_path)) \in SUPPORTED_FORMATS

\* ImageProcessor.load_image: None when the file is missing, has an
\* unsupported extension or cannot be opened, else the image of the file
load_image(args) ==
    IF args.exists /\ is_supported_format(args.input) /\ args.opens
    THEN args.image ELSE NoneImage

\* a main that goes on with whatever load_image returned
load_failed_never(image) == FALSE

\* dither_cli.main, line 111: if image is None
load_failed(image) == image.none

\* the cli record of a main that returned code
CliExit(code, files) == [cli EXCEPT !.pc = "exit", !.exit_code = code, !.written = files]

\* dither_cli.main, lines 40-90: the arguments are parsed; the palette
\* preview is handled before the input is looked at; without an input the
\* parser exits with code 2; a missing input and an unsupported extension
\* return 1
CliMain(args) ==
    /\ cli.pc = "none"
    /\ pc = "new"
    /\ LET started == [cli EXCEPT !.args = args]
       IN  cli' = IF args.palette_preview THEN [started EXCEPT !.pc = "preview"]
                  ELSE IF ~args.given
                  THEN [started EXCEPT !.pc = "exit", !.exit_code = 2]
                  ELSE IF ~args.exists \/ ~is_supported_format(args.input)
                  THEN [started EXCEPT !.pc = "exit", !.exit_code = 1]
                  ELSE [started EXCEPT !.pc = "construct"]
    /\ UNCHANGED dithererVars

\* dither_cli.main, lines 107-115: the image is loaded once the ditherer is
\* ready; main returns 1 when load_image returned None
CliLoadImage ==
    /\ cli.pc = "construct"
    /\ pc = "idle"
    /\ cli.args.quiet \/ progress_callback = "set"
    /\ LET image == load_image(cli.args)
       IN  cli' = IF load_failed(image) THEN CliExit(1, {})
                  ELSE [cli EXCEPT !.pc = "call", !.image = image]
    /\ UNCHANGED dithererVars

\* the names of the files main writes
ComparisonFiles == <<"original", "quantized", "dithered">>

\* dither_cli.main, lines 131-150: the images are saved; saved of them were
\* written.  In the comparison branch a save that fails raises and main
\* returns 1 (line 155); ImageProcessor.save_image returns False instead
CliSave(saved) ==
    /\ cli.pc = "call"
    /\ pc = "done"
    /\ saved <= (IF cli.args.comparison THEN 3 ELSE 1)
    /\ LET files == IF cli.args.comparison
                    THEN { ComparisonFiles[i] : i \in 1..saved }
                    ELSE IF saved = 1 THEN {"dithered"} ELSE {}
       IN  cli' = IF cli.args.comparison /\ saved < 3 THEN CliExit(1, files)
                  ELSE [cli EXCEPT !.pc = "saved", !.written = files]
    /\ UNCHANGED dithererVars

\* dither_cli.main, lines 152-157: the call raised, or the user interrupted
\* the sweep
CliExcept ==
    /\ cli.pc = "call"
    /\ pc \in {"error", "sweep"}
    /\ cli' = CliExit(1, cli.written)
    /\ UNCHANGED dithererVars

\* dither_cli.main, lines 163-167: after the palette information, return 0
CliReturn ==
    /\ cli.pc = "saved"
    /\ info.kind = "info"
    /\ cli' = CliExit(0, cli.written)
    /\ UNCHANGED dithererVars

\* dither_cli.main, lines 68-70: after the palette preview main returns
\* None, which sys.exit makes exit code 0
CliPreviewReturn ==
    /\ cli.pc = "preview"
    /\ info.kind = "preview"
    /\ cli' = CliExit(0, IF info.saved THEN {"palette_preview"} ELSE {})
    /\ UNCHANGED dithererVars

----------------------------------------------------------------------------
(* The window, main.py *)

\* DithererGUI.__init__ with load_custom_palette: the ditherer is made of the
\* colours of minecraft_colors, or of the default palette without that module
GuiInit(custom_colors) ==
    /\ gui.pc = "none"
    /\ Construct(custom_colors)
    /\ pc' = "idle"
    /\ gui' = NewGui

\* the percentage progress_callback puts on the queue, in hundredths
percent(current, total) == (current * 10000) \div total

\* what the progress callback of the worker of a run puts on the progress
\* queue for the reports the ditherer made in one step
ProgressPosts(before, after, run) ==
    [i \in 1..(Len(after) - Len(before)) |->
        [run |-> run,
         percent |-> percent(after[Len(before) + i][1], after[Len(before) + i][2])]]

\* load_image: refused with a warning while a run is in progress; otherwise
\* the image the user picked becomes current_image (None when it cannot be
\* loaded) and a loaded image enables the Dither and Comparison buttons
GuiLoadImage(image) ==
    /\ gui.pc = "ready"
    /\ gui.monitor = "idle"
    /\ gui' = IF gui.processing
              THEN [gui EXCEPT !.returned = "load_image"]
              ELSE IF image.none
              THEN [gui EXCEPT !.current_image = image, !.returned = ""]
              ELSE [gui EXCEPT !.current_image = image, !.returned = "",
                               !.dither_btn = "normal", !.comparison_btn = "normal"]
    /\ UNCHANGED dithererVars

\* the user ticks or clears the resize box
GuiToggleResize ==
    /\ gui.pc = "ready"
    /\ gui.monitor = "idle"
    /\ ~gui.processing
    /\ gui' = [gui EXCEPT !.resize_var = ~@, !.returned = ""]
    /\ UNCHANGED dithererVars

\* a guard that looks at the image only
start_refused_without_image(g) == g.current_image.none

\* lines 355 and 402: if not self.current_image or self.processing: return
start_refused(g) == g.current_image.none \/ g.processing

\* start_dithering, the command of the Dither button
GuiStartDithering ==
    /\ gui.pc = "ready"
    /\ gui.monitor = "idle"
    /\ gui.dither_btn = "normal"
    /\ gui.run < MaxRuns
    /\ gui' = IF start_refused(gui)
              THEN [gui EXCEPT !.returned = "start_dithering"]
              ELSE [gui EXCEPT !.processing = TRUE,
                               !.dither_btn = "disabled",
                               !.save_btn = "disabled",
                               !.progress_var = [run |-> gui.run + 1, percent |-> 0],
                               !.run = @ + 1,
                               !.kind = "dither",
                               !.threads = @ + 1,
                               !.worker = [kind |-> "dither", at |-> "callback",
                                           run |-> gui.run + 1],
                               !.returned = ""]
    /\ UNCHANGED dithererVars

\* generate_comparison, the command of the Comparison button
GuiGenerateComparison ==
    /\ gui.pc = "ready"
    /\ gui.monitor = "idle"
    /\ gui.comparison_btn = "normal"
    /\ gui.run < MaxRuns
    /\ gui' = IF start_refused(gui)
              THEN [gui EXCEPT !.returned = "generate_comparison"]
              ELSE [gui EXCEPT !.processing = TRUE,
                               !.comparison_btn = "disabled",
                               !.run = @ + 1,
                               !.kind = "comparison",
                               !.threads = @ + 1,
                               !.worker = [kind |-> "comparison", at |-> "callback",
                                           run |-> gui.run + 1],
                               !.returned = ""]
    /\ UNCHANGED dithererVars

\* dither_worker and comparison_worker, lines 373-377 and 418-422: the
\* worker hands its callback to the ditherer
GuiWorkerSetCallback ==
    /\ gui.worker.at = "callback"
    /\ IF progress_callback = "none" THEN SetProgressCallback
                                     ELSE UNCHANGED dithererVars
    /\ gui' = [gui EXCEPT !.worker.at = "call"]

\* lines 381-384 and 425-428: the worker calls the ditherer with the current
\* image and the state of the resize box
GuiWorkerCall ==
    /\ gui.worker.at = "call"
    /\ IF gui.worker.kind = "dither"
       THEN DitherImage(gui.current_image, gui.resize_var)
       ELSE DitherWithComparison(gui.current_image, gui.resize_var)
    /\ gui' = [gui EXCEPT !.worker.at = "sweep"]

\* the call of the ditherer raises before its loop: no memory for the arrays
\* of lines 130 and 139
GuiWorkerCallRaises ==
    /\ gui.worker.at = "call"
    /\ pc \in Callable
    /\ call' = IF gui.worker.kind = "dither"
               THEN PlainCall(gui.current_image, gui.resize_var)
               ELSE ComparisonCall(gui.current_image, gui.resize_var)
    /\ RaiseBeforeSweep
    /\ UNCHANGED <<ctor_arg, progress_callback, lookup, remembered>>
    /\ UNCHANGED paletteVars
    /\ UNCHANGED <<class_CARPET_COLORS, other, info, runs>>
    /\ gui' = [gui EXCEPT !.worker.at = "raised"]

\* one iteration of the loop of dither_image in the worker thread; a report
\* of the ditherer goes to the progress queue as a percentage
GuiWorkerPixel ==
    /\ gui.worker.at = "sweep"
    /\ SweepPixel
    /\ gui' = [gui EXCEPT !.progress_queue =
                              @ \o ProgressPosts(notified, notified', gui.worker.run)]

\* the window when dither_image returned to the worker: its final report
\* is on the progress queue
WorkerReturned ==
    [gui EXCEPT !.progress_queue =
                    @ \o ProgressPosts(notified,
                                       _update_progress(notified, processed_pixels,
                                                        total_pixels),
                                       gui.worker.run),
                !.worker.at = "returned"]

\* the end of dither_image in the worker thread, with its final report
GuiWorkerFinish ==
    /\ gui.worker.at = "sweep"
    /\ Finish
    /\ gui' = WorkerReturned

\* lines 388-392 and 431-443: the window when the worker has put its result
\* on the result queue and ended.  The comparison worker saves three files
\* first; saved of them were written, and a save that fails raises (lines
\* 445-449)
WorkerPosted(saved) ==
    [gui EXCEPT !.result_queue =
                    Append(@, [type |-> IF saved < 3 THEN "error"
                                        ELSE IF gui.worker.kind = "dither"
                                        THEN "dither_complete"
                                        ELSE "comparison_complete",
                               run |-> gui.worker.run,
                               image |-> IF saved < 3 THEN NoResult ELSE result]),
                !.threads = @ - 1,
                !.worker = NoWorker]

\* the worker posts what its call returned and ends
GuiWorkerPost(saved) ==
    /\ gui.worker.at = "returned"
    /\ gui.worker.kind = "dither" => saved = 3
    /\ gui' = WorkerPosted(saved)
    /\ UNCHANGED dithererVars

\* a worker that ends without a word when its call raised
WorkerExcepted_silent == [gui EXCEPT !.threads = @ - 1, !.worker = NoWorker]

\* lines 394-398 and 445-449: the window when the worker has posted the
\* error of a call that raised and ended
WorkerExcepted ==
    [gui EXCEPT !.result_queue = Append(@, [type |-> "error", run |-> gui.worker.run,
                                            image |-> NoResult]),
                !.threads = @ - 1,
                !.worker = NoWorker]

\* the call raised, the worker posts the error
GuiWorkerExcept ==
    /\ gui.worker.at = "raised"
    /\ gui' = WorkerExcepted
    /\ UNCHANGED dithererVars

\* monitor_progress, lines 512-515: the tick takes every percentage off the
\* progress queue; the bar keeps the last one
GuiMonitorProgress ==
    /\ gui.pc = "ready"
    /\ gui.monitor = "idle"
    /\ gui' = [gui EXCEPT !.progress_var =
                              IF gui.progress_queue = <<>> THEN @
                              ELSE gui.progress_queue[Len(gui.progress_queue)],
                          !.progress_queue = <<>>,
                          !.monitor = "results",
                          !.returned = ""]
    /\ UNCHANGED dithererVars

\* lines 521-540: what the monitor does with a result before the message
\* box of its branch, if it has one
HandleResult(g, res) ==
    IF res.type = "dither_complete"
    THEN [g EXCEPT !.dithered_image = res.image, !.save_btn = "normal",
                   !.processing = FALSE,
                   !.dither_btn = "normal", !.comparison_btn = "normal"]
    ELSE IF res.type = "comparison_complete"
    THEN [g EXCEPT !.dithered_image = res.image, !.save_btn = "normal",
                   !.dialog = "comparison_complete"]
    ELSE [g EXCEPT !.dialog = "error"]

\* monitor_progress, lines 517-552: one turn of the loop over the result
\* queue, up to the message box of a branch that shows one, or the end of
\* the loop and the scheduling of the next tick
GuiMonitorResults ==
    /\ gui.monitor = "results"
    /\ gui.dialog = ""
    /\ gui' = IF gui.result_queue = <<>>
              THEN [gui EXCEPT !.monitor = "idle"]
              ELSE [HandleResult(gui, Head(gui.result_queue))
                       EXCEPT !.result_queue = Tail(gui.result_queue)]
    /\ UNCHANGED dithererVars

\* lines 536-539 and 542-546: the user closes the message box and the branch
\* runs to its end
GuiDismissDialog ==
    /\ gui.dialog # ""
    /\ gui' = IF gui.dialog = "comparison_complete"
              THEN [gui EXCEPT !.dialog = "", !.processing = FALSE,
                               !.comparison_btn = "normal"]
              ELSE [gui EXCEPT !.dialog = "", !.processing = FALSE,
                               !.dither_btn = "normal", !.comparison_btn = "normal"]
    /\ UNCHANGED dithererVars

----------------------------------------------------------------------------
(* Specifications *)

\* the images a tile-grid call is made with
TiledImages == { i \in SourceImages : i.w * i.h = 1 }
\* the tile counts a tile-grid call is made with
TileCounts == {1, 2, 8, 9}

\* largest number of pixels of the image of a call that follows another call
RepeatMaxPixels == 2
\* the images of a call that follows another call on the same ditherer
LaterImages == { i \in SourceImages : i.w * i.h <= RepeatMaxPixels }

Next ==
    \/ \E cc \in CustomColorChoices : Construct(cc) /\ UNCHANGED hostVars
    \/ SetProgressCallback /\ UNCHANGED hostVars
    \/ /\ \E image \in (IF pc = "idle" THEN SourceImages ELSE LaterImages),
              resize_flag \in BOOLEAN : DitherImage(image, resize_flag)
       /\ UNCHANGED hostVars
    \/ /\ \E image \in TiledImages, mw \in TileCounts : DitherImageTiled(image, mw, 1)
       /\ UNCHANGED hostVars
    \/ SweepPixel /\ UNCHANGED hostVars
    \/ SweepPixelObserverRaises /\ UNCHANGED hostVars
    \/ Finish /\ UNCHANGED hostVars
    \/ FinishObserverRaises /\ UNCHANGED hostVars
    \/ FinishEmptyRaises /\ UNCHANGED hostVars

Spec == Init /\ [][Next]_vars

\* the source images of at least one pixel
PixelImages == { i \in SourceImages : ~i.none /\ i.w * i.h >= 1 }

\* single calls on images of at least one pixel, taken as they are
NextSweep ==
    \/ \E cc \in CustomColorChoices : Construct(cc) /\ UNCHANGED hostVars
    \/ SetProgressCallback /\ UNCHANGED hostVars
    \/ /\ \E image \in PixelImages : pc = "idle" /\ DitherImage(image, FALSE)
       /\ UNCHANGED hostVars
    \/ SweepPixel /\ UNCHANGED hostVars
    \/ SweepPixelObserverRaises /\ UNCHANGED hostVars
    \/ Finish /\ UNCHANGED hostVars
    \/ FinishObserverRaises /\ UNCHANGED hostVars

\* the loop of lines 142-159 takes its next iteration
LoopRuns == pc = "sweep" /\ ~LoopDone /\ processed_pixels' = processed_pixels + 1

\* the interpreter runs on: a loop that has a next iteration takes it, and
\* the statements after the loop run once the loop is over
SpecSweep ==
    Init /\ [][NextSweep]_vars /\ WF_processed_pixels(LoopRuns) /\
    WF_vars(Finish /\ UNCHANGED hostVars)

\* the channel values of the targets of direct palette lookups
TargetChannels == {0, 1, 128, 255}
TargetColors == TargetChannels \X TargetChannels \X TargetChannels

NextPalette ==
    \/ \E cc \in CustomColorChoices : Construct(cc) /\ UNCHANGED hostVars
    \/ /\ \E t \in TargetColors, m \in {"lab", "rgb"} : FindClosestColor(t, m)
       /\ UNCHANGED hostVars

SpecPalette == Init /\ [][NextPalette]_vars

\* the images of the calls whose returned image the caller compares
RepeatImages == { i \in LaterImages : ~i.none /\ i.w * i.h >= 1 }

NextRepeat ==
    \/ \E cc \in CustomColorChoices : Construct(cc) /\ UNCHANGED hostVars
    \/ /\ \E image \in RepeatImages, resize_flag \in BOOLEAN : DitherImage(image, resize_flag)
       /\ UNCHANGED hostVars
    \/ SweepPixel /\ UNCHANGED hostVars
    \/ Finish /\ UNCHANGED hostVars
    \/ Remember /\ UNCHANGED hostVars

SpecRepeat == Init /\ [][NextRepeat]_vars

\* a ditherer asked once for the three images of a comparison
NextCompare ==
    \/ \E cc \in CustomColorChoices : Construct(cc) /\ UNCHANGED hostVars
    \/ /\ \E image \in SourceImages, resize_flag \in BOOLEAN :
             pc = "idle" /\ DitherWithComparison(image, resize_flag)
       /\ UNCHANGED hostVars
    \/ /\ \E image \in SourceImages : pc = "idle" /\ DitherWithComparisonEmptyRaises(image)
       /\ UNCHANGED hostVars
    \/ SweepPixel /\ UNCHANGED hostVars
    \/ Finish /\ UNCHANGED hostVars
    \/ FinishEmptyRaises /\ UNCHANGED hostVars

SpecCompare == Init /\ [][NextCompare]_vars

\* the images of two invocations that run at the same time: the small
\* images, and the images of one colour of up to a batch of pixels
ConcurrentImages ==
    RepeatImages \cup
    { i \in PixelImages : /\ i.w * i.h <= ProgressBatch
                          /\ \A p, q \in DOMAIN i.px : i.px[p] = i.px[q] }

\* the palettes of the ditherers that run two invocations at the same time
ConcurrentColorChoices == { cc \in CustomColorChoices : Truthy(cc) }

\* two invocations on different images, interleaved pixel by pixel: the
\* first on the first ditherer, the second on either ditherer
NextConcurrent ==
    \/ \E cc \in ConcurrentColorChoices : Construct(cc) /\ UNCHANGED hostVars
    \/ SetProgressCallback /\ UNCHANGED hostVars
    \/ /\ pc = "idle" /\ progress_callback = "set" /\ ~other.made /\ ConstructOther(ctor_arg)
       /\ UNCHANGED hostVars
    \/ \E image \in ConcurrentImages : StartRun(1, 1, image) /\ UNCHANGED hostVars
    \/ \E inst \in 1..2, image \in ConcurrentImages :
          /\ runs[1].pc # "none"
          /\ runs[1].image # image
          /\ StartRun(2, inst, image)
          /\ UNCHANGED hostVars
    \/ \E t \in 1..2 : RunPixel(t) /\ UNCHANGED hostVars
    \/ \E t \in 1..2 : RunFinish(t) /\ UNCHANGED hostVars

SpecConcurrent == Init /\ [][NextConcurrent]_vars

\* the source images of one colour, of every size up to MaxSourceSide
LargeImages ==
    UNION { { [none |-> FALSE, w |-> w, h |-> h, px |-> [p \in Pixels(w, h) |-> c]] :
                c \in PixelColors } :
            <<w, h>> \in (1..MaxSourceSide) \X (1..MaxSourceSide) }

\* single calls with resizing on, of images smaller and larger than the canvas
NextResize ==
    \/ \E cc \in CustomColorChoices : Construct(cc) /\ UNCHANGED hostVars
    \/ /\ \E image \in LargeImages : pc = "idle" /\ DitherImage(image, TRUE)
       /\ UNCHANGED hostVars
    \/ SweepPixel /\ UNCHANGED hostVars
    \/ Finish /\ UNCHANGED hostVars

SpecResize == Init /\ [][NextResize]_vars

\* the images of one colour among the small ones
InstanceImages == { i \in RepeatImages : OneColour(i) }

\* every operation of a ditherer around one call of it, with a second
\* ditherer constructed before it or at any time after it
NextInstances ==
    \/ \E cc \in CustomColorChoices : Construct(cc) /\ UNCHANGED hostVars
    \/ /\ \E cc \in CustomColorChoices : ~other.made /\ ConstructOther(cc)
       /\ UNCHANGED hostVars
    \/ SetProgressCallback /\ UNCHANGED hostVars
    \/ /\ \E image \in InstanceImages : pc = "idle" /\ DitherImage(image, FALSE)
       /\ UNCHANGED hostVars
    \/ /\ \E image \in InstanceImages : pc = "idle" /\ DitherWithComparison(image, FALSE)
       /\ UNCHANGED hostVars
    \/ SweepPixel /\ UNCHANGED hostVars
    \/ Finish /\ UNCHANGED hostVars
    \/ GetPaletteInfo /\ UNCHANGED hostVars
    \/ \E written \in BOOLEAN : SavePalettePreview(written) /\ UNCHANGED hostVars

SpecInstances == Init /\ [][NextInstances]_vars

\* the file names given on the command line
InputNames ==
    { <<"a", ".", "p", "n", "g">>, <<"a", ".", "P", "N", "G">>,
      <<"a", ".", "J", "p", "g">>, <<"a", ".", "t", "x", "t">>,
      <<"a", ".", "p", "n", "g", ".", "t", "x", "t">>, <<"p", "n", "g">> }

\* the command lines of the model: with and without an input, the input a
\* missing file, a file that cannot be opened or an image
CliArgs ==
    { a \in [given : BOOLEAN, input : InputNames \cup {<<>>}, exists : BOOLEAN,
              opens : BOOLEAN, image : InstanceImages \cup {NoneImage},
              comparison : BOOLEAN, no_resize : BOOLEAN, quiet : BOOLEAN,
              palette_preview : BOOLEAN] :
        /\ a.given <=> a.input # <<>>
        /\ a.exists => a.given
        /\ a.opens <=> ~a.image.none
        /\ a.opens => a.exists }

\* one run of the command-line tool
NextCli ==
    \/ \E args \in CliArgs : CliMain(args) /\ UNCHANGED <<gui, validation>>
    \/ /\ \E cc \in CustomColorChoices :
             cli.pc \in {"preview", "construct"} /\ Construct(cc)
       /\ UNCHANGED hostVars
    \/ /\ cli.pc = "construct" /\ pc = "idle" /\ ~cli.args.quiet /\ SetProgressCallback
       /\ UNCHANGED hostVars
    \/ CliLoadImage /\ UNCHANGED <<gui, validation>>
    \/ /\ cli.pc = "call" /\ pc = "idle" /\ ~cli.args.comparison
       /\ DitherImage(cli.image, ~cli.args.no_resize)
       /\ UNCHANGED hostVars
    \/ /\ cli.pc = "call" /\ pc = "idle" /\ cli.args.comparison
       /\ DitherWithComparison(cli.image, ~cli.args.no_resize)
       /\ UNCHANGED hostVars
    \/ SweepPixel /\ UNCHANGED hostVars
    \/ Finish /\ UNCHANGED hostVars
    \/ \E saved \in 0..3 : CliSave(saved) /\ UNCHANGED <<gui, validation>>
    \/ CliExcept /\ UNCHANGED <<gui, validation>>
    \/ cli.pc = "saved" /\ info.kind = "none" /\ GetPaletteInfo /\ UNCHANGED hostVars
    \/ CliReturn /\ UNCHANGED <<gui, validation>>
    \/ /\ cli.pc = "preview" /\ pc = "idle" /\ info.kind = "none"
       /\ \E written \in BOOLEAN : SavePalettePreview(written)
       /\ UNCHANGED hostVars
    \/ CliPreviewReturn /\ UNCHANGED <<gui, validation>>

SpecCli == Init /\ [][NextCli]_vars

\* the sides of the images a caller validates
ValidatedSides == {0, 1, 2, 1024, 2047, 2048, 2049, 4096}
\* the modes of the images a caller validates
ValidatedModes == {"RGB", "RGBA", "L", "P", "CMYK", "1", "LA"}
\* None, and PIL images by size and mode
ValidatedImages ==
    { [none |-> TRUE, size |-> <<0, 0>>, mode |-> ""] } \cup
    { [none |-> FALSE, size |-> <<w, h>>, mode |-> m] :
         w \in ValidatedSides, h \in ValidatedSides, m \in ValidatedModes }

NextValidate ==
    \E image \in ValidatedImages : ValidateImage(image)

SpecValidate == Init /\ [][NextValidate]_vars

\* the palettes of the window's ditherer: the default one, and one of
\* minecraft_colors
GuiColorChoices == { NoColors, [none |-> FALSE, colors |-> <<HexBlack, HexWhite>>] }

\* the image the user loads: one of more pixels than a reporting batch
GuiImages ==
    { [none |-> FALSE, w |-> 3, h |-> 2, px |-> [p \in Pixels(3, 2) |-> <<128, 128, 128>>]] }

\* the main thread of the window, its user and its worker threads
NextGui ==
    \/ \E cc \in GuiColorChoices : GuiInit(cc) /\ UNCHANGED <<cli, validation>>
    \/ \E image \in GuiImages \cup {NoneImage} :
          GuiLoadImage(image) /\ UNCHANGED <<cli, validation>>
    \/ GuiToggleResize /\ UNCHANGED <<cli, validation>>
    \/ GuiStartDithering /\ UNCHANGED <<cli, validation>>
    \/ GuiGenerateComparison /\ UNCHANGED <<cli, validation>>
    \/ GuiWorkerSetCallback /\ UNCHANGED <<cli, validation>>
    \/ GuiWorkerCall /\ UNCHANGED <<cli, validation>>
    \/ GuiWorkerCallRaises /\ UNCHANGED <<cli, validation>>
    \/ GuiWorkerPixel /\ UNCHANGED <<cli, validation>>
    \/ GuiWorkerFinish /\ UNCHANGED <<cli, validation>>
    \/ \E saved \in 0..3 : GuiWorkerPost(saved) /\ UNCHANGED <<cli, validation>>
    \/ GuiWorkerExcept /\ UNCHANGED <<cli, validation>>
    \/ GuiMonitorProgress /\ UNCHANGED <<cli, validation>>
    \/ GuiMonitorResults /\ UNCHANGED <<cli, validation>>
    \/ GuiDismissDialog /\ UNCHANGED <<cli, validation>>

SpecGui == Init /\ [][NextGui]_vars

\* the worker thread takes the next iteration of the loop of dither_image
GuiLoopRuns == gui.worker.at = "sweep" /\ LoopRuns

\* the worker thread runs its next statement outside that loop
GuiWorkerAdvances ==
    \/ gui.worker.at = "callback" /\ gui' = [gui EXCEPT !.worker.at = "call"]
    \/ gui.worker.at = "call" /\ pc \in Callable /\ gui' = [gui EXCEPT !.worker.at = "sweep"]
    \/ gui.worker.at = "sweep" /\ pc = "sweep" /\ LoopDone /\ gui' = WorkerReturned
    \/ gui.worker.at = "returned" /\ gui' = WorkerPosted(3)
    \/ gui.worker.at = "raised" /\ gui' = WorkerExcepted

\* the monitor tick: root.after(100, ...) runs it again and again
GuiMonitorTick ==
    /\ GuiMonitorProgress \/ GuiMonitorResults
    /\ UNCHANGED <<cli, validation>>

\* the interpreter runs a live worker thread on, and the event loop runs
\* the tick that is scheduled; nothing makes the user close a message box
SpecGuiFair ==
    Init /\ [][NextGui]_vars /\ WF_gui(GuiWorkerAdvances) /\
    WF_processed_pixels(GuiLoopRuns) /\ WF_vars(GuiMonitorTick)

----------------------------------------------------------------------------
(* Properties *)

\* a step of the model that is one iteration of the loop body
IsSweepStep == pc = "sweep" /\ processed_pixels' = processed_pixels + 1

\* the weight (sixteenths) the Floyd-Steinberg stencil gives cell p = <<row, column>>
\* when pixel (px, py) is quantized: 7 right, 3 below-left, 5 below, 1 below-right
FloydSteinbergWeight(px, py, p) ==
    IF p = <<py, px + 1>> THEN 7
    ELSE IF p = <<py + 1, px - 1>> THEN 3
    ELSE IF p = <<py + 1, px>> THEN 5
    ELSE IF p = <<py + 1, px + 1>> THEN 1
    ELSE 0

\* C1: a pixel step at (x, y) with error e changes the working buffer at
\* exactly the in-bounds cells (x+1,y), (x-1,y+1), (x,y+1), (x+1,y+1), which
\* receive 7/16 e, 3/16 e, 5/16 e and 1/16 e (then clamped); every other
\* cell keeps its value.
C1_FloydSteinbergStencil ==
    [][ IsSweepStep =>
          \A p \in DOMAIN image_array :
             LET k == FloydSteinbergWeight(x, y, p)
                 e == step'.error
             IN  image_array'[p] = << Clip(image_array[p][1] + k * e[1]),
                                      Clip(image_array[p][2] + k * e[2]),
                                      Clip(image_array[p][3] + k * e[3]) >> ]_vars

\* C2: a ditherer constructed from an empty colour list does not exist:
\* construction raised.
C2_EmptyListRaises ==
    (pc # "new" /\ ~ctor_arg.none /\ Len(ctor_arg.colors) = 0) => pc = "raised"

\* the distances of the palette entries from the target of the last lookup
LookupDistances ==
    IF lookup.method = "lab" THEN LabDistances(lookup.target)
                             ELSE RgbDistances(lookup.target)

\* C3: find_closest_color returns an index i, 0 <= i < palette length, such
\* that no entry is strictly closer to the target than entry i, and the RGB
\* colour stored at i.
C3_NearestEntry ==
    lookup.valid =>
       /\ 0 <= lookup.idx /\ lookup.idx < Len(colors_rgb)
       /\ \A j \in 1..Len(colors_rgb) :
             LookupDistances[j] >= LookupDistances[lookup.idx + 1]
       /\ lookup.rgb = colors_rgb[lookup.idx + 1]

\* a lookup in a palette of several entries returned an entry other than the first
C3_Witness ==
    /\ lookup.valid
    /\ Len(colors_rgb) > 1
    /\ lookup.idx > 0
    /\ \E j \in 1..Len(colors_rgb) : LookupDistances[j] > LookupDistances[lookup.idx + 1]

\* C4: among entries at the same minimum distance find_closest_color
\* returns the lowest index: every entry before the returned one is
\* strictly farther from the target.
C4_LowestIndexOfTies ==
    lookup.valid =>
       \A j \in 1..lookup.idx : LookupDistances[j] > LookupDistances[lookup.idx + 1]

\* a lookup for which two entries are at the minimum distance
C4_Witness ==
    /\ lookup.valid
    /\ \E j \in 1..Len(colors_rgb) :
          /\ j # lookup.idx + 1
          /\ LookupDistances[j] = LookupDistances[lookup.idx + 1]

\* colour c is a palette colour no palette entry is strictly nearer to rgb than
NearestInPalette(c, rgb) ==
    LET d == LabDistances(rgb)
    IN  \E i \in 1..Len(colors_rgb) :
           /\ colors_rgb[i] = c
           /\ \A j \in 1..Len(colors_rgb) : d[j] >= d[i]

\* C5: the pixel a step writes into the output is the palette colour
\* perceptually nearest to the working value read at that visit; a pixel
\* once written is not changed by any later step; the returned image is the
\* output buffer, every pixel of it written.
C5_OutputIsNearestPaletteColor ==
    [][ (pc = "sweep" /\ pc' \in {"sweep", "done"}) =>
          /\ \A p \in DOMAIN visited_rgb : output_array'[p] = output_array[p]
          /\ IsSweepStep =>
                NearestInPalette(output_array'[<<y, x>>], AsInt(image_array[<<y, x>>]))
          /\ pc' = "done" =>
                /\ DOMAIN visited_rgb = Pixels(width, height)
                /\ result' = [none |-> FALSE, w |-> width, h |-> height,
                              px |-> output_array] ]_vars

\* a completed call on at least four pixels during which diffused error
\* changed the value of a pixel before it was visited
C5_Witness ==
    /\ pc = "done"
    /\ ~call.resize
    /\ width * height >= 4
    /\ \E p \in DOMAIN visited_rgb : visited_rgb[p] # call.image.px[p]

\* a call of dither_image on an image of zero width or height
ZeroSizeCall == call.kind = "dither" /\ ~call.image.none /\ call.image.w * call.image.h = 0

\* C6: a call on a source image of zero width or height ends in an error:
\* it returns no image and the observer receives nothing.
C6_ZeroSizeRejected ==
    (ZeroSizeCall /\ pc \in {"done", "error"}) =>
       (pc = "error" /\ result.none /\ notified = <<>>)

\* C7: dither_image(None) raises before any pixel is processed: no image is
\* returned, the observer receives nothing and the counters keep the values
\* they had before the call.
C7_NoneRaisesEarly ==
    [][ (pc \in Callable /\ call'.kind = "dither" /\ call'.image.none
           /\ <<pc, call>> # <<pc', call'>>) =>
          /\ pc' = "error"
          /\ result'.none
          /\ notified' = <<>>
          /\ visited_rgb' = <<>>
          /\ processed_pixels' = processed_pixels
          /\ total_pixels' = total_pixels ]_vars

\* dither_image(None) raised on a ditherer whose counters an earlier call had set
C7_Witness ==
    /\ call.kind = "dither"
    /\ call.image.none
    /\ pc = "error"
    /\ total_pixels > 0
    /\ processed_pixels = total_pixels
    /\ progress_callback = "set"

\* the largest number of tiles per side of a tile grid
MaxMapTiles == 8

\* C8: a tile-grid call for N x M tiles returns an image of exactly
\* (tile * N, tile * M) pixels when N and M are in 1..8, and fails without an
\* image otherwise.
C8_TileGridSize ==
    (call.kind = "tiled" /\ pc # "idle") =>
       IF call.map_width \in 1..MaxMapTiles /\ call.map_height \in 1..MaxMapTiles
       THEN pc \in {"sweep", "done"}
            /\ (pc = "done" =>
                  /\ ~result.none
                  /\ result.w = MapEdge * call.map_width
                  /\ result.h = MapEdge * call.map_height)
       ELSE pc = "error" /\ result.none

\* C9: a call with the same image and the same resize option as an earlier
\* completed call on the same ditherer returns the same image.
C9_SameInputSameOutput ==
    (pc = "done" /\ remembered.valid /\ remembered.later /\ remembered.call = call)
       => result = remembered.result

\* a second call with the arguments of the remembered one completed, and its
\* image is not of one colour
C9_Witness ==
    /\ pc = "done"
    /\ remembered.valid
    /\ remembered.later
    /\ remembered.call = call
    /\ \E p, q \in DOMAIN result.px : result.px[p] # result.px[q]

\* the sum over the writes of a step of channel c of the amounts (sixteenths)
RECURSIVE SumAmounts(_, _, _)
SumAmounts(writes, c, k) ==
    IF k > Len(writes) THEN 0
    ELSE writes[k].amount[c] + SumAmounts(writes, c, k + 1)

\* the weights of the in-bounds Floyd-Steinberg neighbours of (px, py), summed
InBoundsWeight(px, py, w, h) ==
    (IF InBounds(px + 1, py, w, h) THEN 7 ELSE 0)
      + (IF InBounds(px - 1, py + 1, w, h) THEN 3 ELSE 0)
      + (IF InBounds(px, py + 1, w, h) THEN 5 ELSE 0)
      + (IF InBounds(px + 1, py + 1, w, h) THEN 1 ELSE 0)

\* C10: the error a pixel step adds to in-bounds neighbours, summed per
\* channel before clamping, is the pixel's error times the summed weights of
\* its in-bounds stencil neighbours; for a pixel outside the leftmost
\* column, the rightmost column and the bottom row that is the whole error.
C10_ErrorConserved ==
    (pc \in {"sweep", "done"} /\ step.x >= 0) =>
       \A c \in 1..3 :
          /\ SumAmounts(step.writes, c, 1)
               = step.error[c] * InBoundsWeight(step.x, step.y, width, height)
          /\ (0 < step.x /\ step.x < width - 1 /\ step.y < height - 1) =>
                SumAmounts(step.writes, c, 1) = 16 * step.error[c]

\* the cells the writes of a step address, as the loop computed them
WrittenCells(writes) == { <<writes[k].ny, writes[k].nx>> : k \in 1..Len(writes) }

\* a sweep over an image of at least one pixel is under way
SweepingPixels == pc = "sweep" /\ width * height > 0
\* the call returned an image, or the observer's exception ended it
SweepEnded == pc = "done" \/ observer_raised

\* C11: every cell a pixel step of the error diffusion reads or writes lies
\* inside 0 <= x < width, 0 <= y < height; the cells it changes are cells its
\* loop addressed, at most one column away from the pixel and below it (no
\* index wraps to the opposite edge); the buffer keeps its shape; and a
\* sweep over an image of at least one pixel ends: it returns an image,
\* unless the observer raises.
C11_DiffusionStaysInBounds ==
    /\ [][ IsSweepStep =>
             /\ DOMAIN image_array = Pixels(width, height)
             /\ DOMAIN image_array' = Pixels(width, height)
             /\ \A k \in 1..Len(step'.writes) :
                   /\ 0 <= step'.writes[k].nx /\ step'.writes[k].nx < width
                   /\ 0 <= step'.writes[k].ny /\ step'.writes[k].ny < height
             /\ \A p \in DOMAIN image_array :
                   image_array'[p] # image_array[p] =>
                      /\ p \in WrittenCells(step'.writes)
                      /\ p[1] > y
                      /\ p[2] \in (x - 1)..(x + 1) ]_vars
    /\ SweepingPixels ~> SweepEnded

\* a step at the leftmost column, where the neighbour in column -1 is
\* skipped, that added error to a neighbour inside the buffer
C11_Witness ==
    /\ pc = "sweep"
    /\ step.x = 0
    /\ step.y + 2 < height
    /\ \E k \in 1..Len(step.writes) : step.writes[k].amount # <<0, 0, 0>>
    /\ \E p \in DOMAIN image_array : image_array[p] # image_to_float_array(call.image)[p]

\* C12: a call of dither_image that reaches its sweep sets the counters to
\* (0, width * height), the number of pixels of the buffer it sweeps; while
\* the sweep runs the total keeps its value and the processed count grows by
\* exactly one with every pixel visited and not otherwise; and
\* 0 <= processed <= total in every state, whatever calls came before.
C12_ProgressCounters ==
    /\ [](0 <= processed_pixels /\ processed_pixels <= total_pixels)
    /\ [][ /\ (pc \in Callable /\ pc' = "sweep") =>
                /\ processed_pixels' = 0
                /\ total_pixels' = width' * height'
                /\ total_pixels' = Cardinality(DOMAIN image_array')
           /\ pc = "sweep" =>
                /\ total_pixels' = total_pixels
                /\ processed_pixels' = processed_pixels
                      + (IF DOMAIN visited_rgb' # DOMAIN visited_rgb THEN 1 ELSE 0)
                /\ Cardinality(DOMAIN visited_rgb') = processed_pixels' ]_vars

\* a sweep under way, partly done, in a call that follows a call that ended
\* in an exception
C12_Witness ==
    /\ pc = "sweep"
    /\ call.after_error
    /\ 0 < processed_pixels
    /\ processed_pixels < total_pixels

\* C13: with an observer registered, a pixel step that brings the processed
\* count to a multiple of the batch size reports (processed, total) to the
\* observer at that step; and when a run completes the observer has
\* received at least one report, a report for every multiple of the batch
\* size up to the total, and last of all (total, total); the processed
\* values of the reports never decrease and every report carries the total.
C13_ReportsEveryBatchAndAtTheEnd ==
    [][ /\ (IsSweepStep /\ progress_callback = "set"
              /\ processed_pixels' % ProgressBatch = 0) =>
                notified' = Append(notified, <<processed_pixels', total_pixels>>)
        /\ (pc = "sweep" /\ pc' = "done" /\ progress_callback = "set") =>
             LET n == Len(notified')
             IN  /\ n >= 1
                 /\ notified'[n] = <<total_pixels, total_pixels>>
                 /\ \A k \in 1..(total_pixels \div ProgressBatch) :
                       \E i \in 1..n : notified'[i] = <<k * ProgressBatch, total_pixels>>
                 /\ \A i \in 1..(n - 1) : notified'[i][1] <= notified'[i + 1][1]
                 /\ \A i \in 1..n : notified'[i][2] = total_pixels ]_vars

\* a completed run that reported a full batch before the end, and ended
\* with the final report
C13_Witness ==
    /\ pc = "done"
    /\ Len(notified) >= 2
    /\ notified[1] = <<ProgressBatch, total_pixels>>
    /\ notified[Len(notified)] = <<total_pixels, total_pixels>>

\* C14: when the observer raises during a run the exception ends the
\* call: the ditherer is back with its caller in an error, the step at which
\* the observer raised is the last step of the sweep (the pixels visited and
\* the counters stay as that step left them, the report that raised is the
\* last one), and no image is returned, neither then nor later for that call.
C14_ObserverExceptionPropagates ==
    /\ [](observer_raised =>
            /\ pc = "error"
            /\ result.none
            /\ notified # <<>>
            /\ notified[Len(notified)] = <<processed_pixels, total_pixels>>
            /\ Cardinality(DOMAIN visited_rgb) = processed_pixels)
    /\ [][ /\ (observer_raised' /\ ~observer_raised) =>
                (pc = "sweep" /\ progress_callback = "set")
           /\ (observer_raised /\ observer_raised') =>
                UNCHANGED <<pc, processed_pixels, total_pixels, visited_rgb,
                            output_array, notified, result>> ]_vars

\* the observer raised at a batch report in the middle of a sweep
C14_Witness ==
    /\ observer_raised
    /\ 0 < processed_pixels
    /\ processed_pixels < total_pixels
    /\ \E p \in DOMAIN output_array : p \notin DOMAIN visited_rgb

\* C15: the quantize-only image has the size of its source, each of its
\* pixels is the palette colour perceptually nearest to the source pixel at
\* the same place, so source pixels of equal colour get equal colours, and
\* the array of the source is after the loops what it was before them.
C15_QuantizeOnlyIsPointwise ==
    comparison.valid =>
       LET original == comparison.original
           quantized == comparison.quantized
       IN  /\ ~quantized.none
           /\ quantized.w = original.w /\ quantized.h = original.h
           /\ DOMAIN quantized.px = DOMAIN original.px
           /\ \A p \in DOMAIN original.px :
                 NearestInPalette(quantized.px[p], original.px[p])
           /\ \A p, q \in DOMAIN original.px :
                 original.px[p] = original.px[q] => quantized.px[p] = quantized.px[q]
           /\ comparison.source_after = original.px

\* a comparison of an image with two pixels of one colour and one of another,
\* whose dithered image differs from the quantize-only image
C15_Witness ==
    /\ comparison.valid
    /\ pc = "done"
    /\ \E p, q \in DOMAIN comparison.original.px :
          p # q /\ comparison.original.px[p] = comparison.original.px[q]
    /\ \E p, q \in DOMAIN comparison.original.px :
          comparison.quantized.px[p] # comparison.quantized.px[q]
    /\ \E p \in DOMAIN result.px : result.px[p] # comparison.quantized.px[p]

\* the image the resize step makes of the image of the current call
PostResize ==
    IF call.resize THEN resize_for_minecraft(call.image, <<MapEdge, MapEdge>>)
                   ELSE call.image

\* C16: dither_with_comparison resizes once: its original is the source
\* resized and centred when resizing is on and the source itself when it is
\* off; the sweep that makes the dithered image starts from the pixels of
\* that original, and the quantize-only image is made from them too; the
\* three images returned are the original, the quantize-only image and the
\* dithered image, all of the size of the canvas when resizing is on and of
\* the size of the source when it is off.
C16_ComparisonSharesOneOriginal ==
    /\ [][ (pc \in Callable /\ pc' = "sweep" /\ call'.kind = "comparison") =>
             /\ width' = comparison'.original.w
             /\ height' = comparison'.original.h
             /\ image_array' = image_to_float_array(comparison'.original) ]_vars
    /\ []((call.kind = "comparison" /\ pc \in {"sweep", "done"}) =>
            /\ comparison.valid
            /\ comparison.original = PostResize
            /\ \A p \in DOMAIN comparison.original.px :
                  NearestInPalette(comparison.quantized.px[p], comparison.original.px[p]))
    /\ []((call.kind = "comparison" /\ pc = "done") =>
            LET w == IF call.resize THEN MapEdge ELSE call.image.w
                h == IF call.resize THEN MapEdge ELSE call.image.h
            IN  /\ ~result.none
                /\ comparison.original.w = w /\ comparison.original.h = h
                /\ comparison.quantized.w = w /\ comparison.quantized.h = h
                /\ result.w = w /\ result.h = h
                /\ DOMAIN result.px = Pixels(w, h))

\* a comparison with resizing on of a source smaller than the canvas returned
\* its three images
C16_Witness ==
    /\ call.kind = "comparison"
    /\ pc = "done"
    /\ call.resize
    /\ call.image.w * call.image.h >= 2
    /\ call.image.w < MapEdge
    /\ result.w = MapEdge
    /\ \E p \in DOMAIN result.px : result.px[p] # comparison.quantized.px[p]

\* the 2 x 2 image whose four pixels are (128, 128, 128)
Grey2x2 == [none |-> FALSE, w |-> 2, h |-> 2,
            px |-> [p \in Pixels(2, 2) |-> <<128, 128, 128>>]]

\* a comparison of the grey 2 x 2 image, taken as it is, under the palette
\* [#000000, #FFFFFF] has returned
GreyScenarioDone ==
    /\ pc = "done"
    /\ call.kind = "comparison"
    /\ call.image = Grey2x2
    /\ ~call.resize
    /\ CARPET_COLORS = <<HexBlack, HexWhite>>

\* C17: for the grey 2 x 2 image, the palette [#000000, #FFFFFF] and no
\* resizing, the quantize-only image has one colour c at all four pixels;
\* the dithered image has c at pixel (0,0) and the other palette colour at
\* one or more of the three other pixels.
C17_GreySquareDithersToBothExtremes ==
    GreyScenarioDone =>
       LET c == comparison.quantized.px[<<0, 0>>]
       IN  /\ c \in {<<0, 0, 0>>, <<255, 255, 255>>}
           /\ \A p \in Pixels(2, 2) : comparison.quantized.px[p] = c
           /\ result.px[<<0, 0>>] = c
           /\ \E p \in Pixels(2, 2) \ {<<0, 0>>} :
                 /\ result.px[p] # c
                 /\ result.px[p] \in {<<0, 0, 0>>, <<255, 255, 255>>}

\* the grey scenario has run: its dithered image holds both palette colours
C17_Witness ==
    /\ GreyScenarioDone
    /\ \E p, q \in Pixels(2, 2) : result.px[p] # result.px[q]
    /\ \A p, q \in Pixels(2, 2) : comparison.quantized.px[p] = comparison.quantized.px[q]

\* invocation t returned the image it returns when it runs alone
RunReturnsOwnImage(t) ==
    runs[t].pc = "done" => runs[t].result = dither_alone(runs[t].image)

\* the reports of invocation t are the reports of its own counts: one
\* (k * batch, total) for every full batch of its own pixels done so far,
\* then (total, total) once it is over, total being its own pixel count
RunReportsOwnCounts(t) ==
    LET r == runs[t]
        total == r.width * r.height
        own == r.y * r.width + r.x
        batches == own \div ProgressBatch
    IN  /\ Len(r.notified) = batches + (IF r.pc = "done" THEN 1 ELSE 0)
        /\ \A i \in 1..Len(r.notified) :
              /\ r.notified[i][1] <= r.notified[i][2]
              /\ r.notified[i] = IF i <= batches THEN <<i * ProgressBatch, total>>
                                                  ELSE <<total, total>>

\* C18 as stated: of two invocations on different images interleaved pixel
\* by pixel, on one ditherer or on two, each returns the image it returns
\* alone, and every report carries the counts of the invocation that made
\* it, with processed <= total.
C18_ConcurrentRunsShareNothing ==
    \A t \in 1..2 : RunReturnsOwnImage(t) /\ RunReportsOwnCounts(t)

\* C18 amended: each of the two invocations returns the image it returns
\* alone, on one ditherer or on two; when the invocations are made on two
\* different ditherers every report carries the counts of the invocation
\* that made it, with processed <= total.
C18_ConcurrentRunsOnSeparateDitherers ==
    \A t \in 1..2 :
       /\ RunReturnsOwnImage(t)
       /\ runs[1].inst # runs[2].inst => RunReportsOwnCounts(t)

\* two invocations on two ditherers, both under way with pixels done, the
\* first with a full batch reported, the second later to end
C18_Witness ==
    /\ runs[1].pc = "sweep" /\ runs[2].pc = "sweep"
    /\ runs[1].inst = 1 /\ runs[2].inst = 2
    /\ runs[1].notified # <<>>
    /\ runs[2].y * runs[2].width + runs[2].x > 0
    /\ runs[2].y < runs[2].height

\* a content rectangle of cw x ch pixels keeps the aspect ratio of a source of
\* w x h pixels as far as whole pixels allow: it is the source itself, or one
\* side is the side of the canvas and the other is less than one pixel away
\* from the exact value
KeepsAspect(w, h, cw, ch) ==
    \/ cw = w /\ ch = h
    \/ cw = MapEdge /\ Abs(ch * w - MapEdge * h) < w
    \/ ch = MapEdge /\ Abs(cw * h - MapEdge * w) < h

\* array (sixteenths) is the black canvas with a content rectangle of
\* cw x ch pixels of the source at offsets floor((canvas - content) / 2),
\* the right and bottom margins at most one pixel wider than the left and
\* top ones
CentredOnCanvas(source, cw, ch, array) ==
    LET ox == (MapEdge - cw) \div 2
        oy == (MapEdge - ch) \div 2
        content(p) == IF cw = source.w /\ ch = source.h
                      THEN source.px[<<p[1] - oy, p[2] - ox>>]
                      ELSE source.px[<<0, 0>>]
    IN  /\ (MapEdge - cw - ox) - ox \in {0, 1}
        /\ (MapEdge - ch - oy) - oy \in {0, 1}
        /\ \A p \in Pixels(MapEdge, MapEdge) :
              array[p] = IF /\ oy <= p[1] /\ p[1] < oy + ch
                            /\ ox <= p[2] /\ p[2] < ox + cw
                         THEN <<16 * content(p)[1], 16 * content(p)[2],
                                16 * content(p)[3]>>
                         ELSE <<0, 0, 0>>

\* C19: with resizing on, a source of at least 1 x 1 pixels becomes an image
\* of exactly the size of the canvas: the sweep starts from a buffer of that
\* size that is black but for one content rectangle, which is no larger than
\* the canvas, keeps the aspect ratio of the source up to whole pixels and
\* lies at offsets floor((canvas - content) / 2), so that opposite margins
\* differ by at most one pixel; the sweep quantizes a pixel of the fill as it
\* quantizes any other, to the palette colour nearest the value it reads, and
\* the image returned has the size of the canvas.
C19_ResizeCentresOnBlackCanvas ==
    /\ [][(pc \in Callable /\ pc' = "sweep" /\ call'.resize) =>
            /\ width' = MapEdge /\ height' = MapEdge
            /\ DOMAIN image_array' = Pixels(MapEdge, MapEdge)
            /\ \E cw \in 1..MapEdge, ch \in 1..MapEdge :
                  /\ KeepsAspect(call'.image.w, call'.image.h, cw, ch)
                  /\ CentredOnCanvas(call'.image, cw, ch, image_array')]_vars
    /\ [][(IsSweepStep /\ call.resize) =>
            NearestInPalette(output_array'[<<y, x>>], AsInt(image_array[<<y, x>>]))]_vars
    /\ [](pc = "done" /\ call.resize =>
            /\ result.w = MapEdge /\ result.h = MapEdge
            /\ DOMAIN result.px = Pixels(MapEdge, MapEdge))

\* a wide source larger than the canvas has been dithered: the rows of fill
\* above and below its content were visited as black pixels, its content was not
C19_Witness ==
    /\ pc = "done"
    /\ call.resize
    /\ call.image.w > MapEdge
    /\ call.image.h < call.image.w
    /\ visited_rgb[<<0, 0>>] = <<0, 0, 0>>
    /\ visited_rgb[<<MapEdge - 1, 0>>] = <<0, 0, 0>>
    /\ \E p \in DOMAIN visited_rgb : visited_rgb[p] # <<0, 0, 0>>

\* the list of colours and the two arrays cached with it have one length,
\* and entry i of each array is the RGB value and the Lab value of colour i
PaletteConsistent(colors, rgb, lab) ==
    /\ Len(rgb) = Len(colors)
    /\ Len(lab) = Len(colors)
    /\ \A i \in 1..Len(colors) :
          /\ rgb[i] = hex_to_rgb(colors[i])
          /\ lab[i] = rgb_to_lab(rgb[i])

\* a step that constructs the first ditherer
IsConstructStep == pc = "new" /\ pc' # "new"

\* C20: once a ditherer is constructed no operation changes the list of
\* colours of its palette or the RGB and Lab arrays cached with it:
\* dither_image, dither_with_comparison, get_palette_info,
\* save_palette_preview, set_progress_callback and the construction of
\* another ditherer all leave them as they are; the three are built with the
\* same length and with entry i of each describing the same colour, and so
\* stay that way; a ditherer
\* constructed without custom colours has the default palette, whatever
\* ditherers with custom colours were constructed before it, and a ditherer
\* that exists keeps its palette when another is constructed.
C20_PaletteIsReadOnly ==
    /\ [][pc # "new" => UNCHANGED paletteVars]_vars
    /\ [][(IsConstructStep /\ other.made) => other' = other]_vars
    /\ [][(IsConstructStep /\ pc' = "idle") =>
            PaletteConsistent(CARPET_COLORS', colors_rgb', colors_lab')]_vars
    /\ [][(other' # other /\ other'.made) =>
            PaletteConsistent(other'.CARPET_COLORS, other'.colors_rgb,
                              other'.colors_lab)]_vars
    /\ [](pc \in Callable \cup {"sweep"} /\ ~Truthy(ctor_arg) =>
            CARPET_COLORS = DEFAULT_CARPET_COLORS)
    /\ [](other.made /\ ~Truthy(other.arg) =>
            other.CARPET_COLORS = DEFAULT_CARPET_COLORS)
    /\ [](class_CARPET_COLORS = DEFAULT_CARPET_COLORS)

\* a ditherer with custom colours has dithered an image and given its palette
\* information, and a ditherer constructed after it without custom colours
\* exists beside it
C20_Witness ==
    /\ pc = "done"
    /\ Truthy(ctor_arg)
    /\ info.kind # "none"
    /\ progress_callback = "set"
    /\ other.made
    /\ other.after_first
    /\ ~Truthy(other.arg)
    /\ other.CARPET_COLORS # CARPET_COLORS

\* C21 as stated: the third component of the result of find_closest_color
\* is the distance between the target and the palette entry returned, under
\* the metric of the call: it equals calculate_color_distance(target,
\* returned colour, metric).
C21_ThirdIsDistance ==
    lookup.valid =>
       lookup.third = PyFloat(calculate_color_distance(lookup.target, lookup.rgb,
                                                       lookup.method))

\* C21: the third component of the result of find_closest_color is the hex
\* string of the palette entry returned, the string the RGB colour returned
\* was made from; the distance between the target and that entry is what
\* calculate_color_distance(target, returned colour, metric) gives, and no
\* palette entry is at a smaller distance from the target.
C21_ThirdIsHexOfEntry ==
    lookup.valid =>
       /\ lookup.third = PyStr(CARPET_COLORS[lookup.idx + 1])
       /\ hex_to_rgb(lookup.third.str) = lookup.rgb
       /\ LET distance == calculate_color_distance(lookup.target, lookup.rgb,
                                                   lookup.method)
          IN  /\ distance = Sqrt(LookupDistances[lookup.idx + 1])
              /\ \A j \in 1..Len(colors_rgb) : distance <= Sqrt(LookupDistances[j])

\* a perceptual lookup in a palette of several entries returned an entry at a
\* distance above zero from the target
C21_Witness ==
    /\ lookup.valid
    /\ lookup.method = "lab"
    /\ Len(colors_rgb) > 1
    /\ calculate_color_distance(lookup.target, lookup.rgb, lookup.method) > 0
    /\ lookup.third.type = "str"

\* the input of the command line is a file name and the file is missing, or
\* its name ends in none of the supported extensions whatever the case of
\* its letters, or it cannot be loaded
InputRejected ==
    /\ cli.pc # "none"
    /\ cli.args.given
    /\ \/ ~cli.args.exists
       \/ ~\E e \in SUPPORTED_FORMATS :
              /\ Len(e) < Len(cli.args.input)
              /\ e = lower(SubSeq(cli.args.input, Len(cli.args.input) - Len(e) + 1,
                                  Len(cli.args.input)))
       \/ ~cli.args.opens

\* no call of dither_image or dither_with_comparison has been made, no file
\* has been written, and main, if it has returned, has returned 1
RejectedWithoutWork ==
    /\ call.kind = "none"
    /\ cli.written = {}
    /\ cli.pc = "exit" => cli.exit_code = 1

\* C22 as stated: when the input path does not exist, has an extension
\* outside the supported set (compared without regard to case) or cannot be
\* loaded, main returns exit code 1 without any call of dither_image or
\* dither_with_comparison and without writing any output file.
C22_BadInputExitsWithOne == InputRejected => RejectedWithoutWork

\* C22: the same, for the command lines without --palette-preview.
C22_BadInputExitsWithOneUnlessPreview ==
    (InputRejected /\ ~cli.args.palette_preview) => RejectedWithoutWork

\* main has returned for a file that exists and has a supported extension
\* written in capitals but cannot be opened; the ditherer had been
\* constructed and given its observer
C22_Witness ==
    /\ cli.pc = "exit"
    /\ cli.exit_code = 1
    /\ ~cli.args.palette_preview
    /\ cli.args.exists
    /\ ~cli.args.opens
    /\ cli.args.input = <<"a", ".", "P", "N", "G">>
    /\ pc = "idle"
    /\ progress_callback = "set"

\* the working value (sixteenths) of the pixel the next step visits
WorkingValue == image_array[<<y, x>>]

\* the step looks up target, diffuses target minus the colour it wrote, and
\* both are integers of the 0..255 domain and of -255..255
LooksUpAndDiffuses(target) ==
    /\ visited_rgb'[<<y, x>>] = target
    /\ \A c \in 1..3 :
          /\ target[c] \in 0..255
          /\ step'.error[c] = target[c] - output_array'[<<y, x>>][c]
          /\ step'.error[c] \in -255..255

\* C23 as stated: the triple a pixel step looks up is the working value with
\* each channel rounded to the nearest integer (a half either way), and the
\* error it diffuses is that triple minus the chosen colour.
C23_LookupIsNearestInteger ==
    [][ IsSweepStep =>
          \E target \in {AsInt(WorkingValue), AsInt_nearest(WorkingValue)} :
             /\ \A c \in 1..3 : 16 * target[c] - WorkingValue[c] \in -8..8
             /\ LooksUpAndDiffuses(target) ]_vars

\* C23: the triple a pixel step looks up is the working value with the
\* fraction of each channel cut off (the largest integer not above it), an
\* integer in 0..255, and the error it diffuses is that triple minus the
\* chosen colour, an integer in -255..255 in each channel.
C23_LookupIsTruncatedInteger ==
    [][ IsSweepStep =>
          \E target \in {visited_rgb'[<<y, x>>]} :
             /\ \A c \in 1..3 : WorkingValue[c] - 16 * target[c] \in 0..15
             /\ LooksUpAndDiffuses(target) ]_vars

\* a visited pixel whose working value had a fraction above one half in some
\* channel and was looked up as the integer below it, with an error diffused
C23_Witness ==
    /\ pc \in {"sweep", "done"}
    /\ step.x >= 0
    /\ <<step.y, step.x>> \in DOMAIN visited_rgb
    /\ step.error # <<0, 0, 0>>
    /\ \E c \in 1..3 :
          /\ image_array[<<step.y, step.x>>][c] % 16 > 8
          /\ visited_rgb[<<step.y, step.x>>][c] = image_array[<<step.y, step.x>>][c] \div 16

\* every channel of every cell of the working buffer is within [0, 255]
WorkingBufferInRange ==
    \A p \in DOMAIN image_array : \A c \in 1..3 : image_array[p][c] \in 0..4080

\* a pixel step stores in each cell it writes the sum of the stored value and
\* the weighted error, cut to [0, 255]: nothing beyond the range is kept
WritesAreClamped ==
    IsSweepStep =>
       \A k \in 1..Len(step'.writes) :
          LET wr == step'.writes[k]
              cell == <<wr.ny, wr.nx>>
          IN  \A c \in 1..3 :
                 image_array'[cell][c] =
                    IF image_array[cell][c] + wr.amount[c] > 4080 THEN 4080
                    ELSE IF image_array[cell][c] + wr.amount[c] < 0 THEN 0
                    ELSE image_array[cell][c] + wr.amount[c]

\* C24: in every state of the sweep every channel of every working-buffer
\* cell lies in [0, 255], and every neighbour write stores the clamped sum, so
\* the part of the error beyond the range is lost when it is written.
C24_WorkingBufferClamped ==
    /\ [](pc \in {"sweep", "done"} => WorkingBufferInRange)
    /\ [][WritesAreClamped]_vars

\* the first step of a sweep wrote a neighbour whose sum left the range, and
\* the neighbour holds the bound
C24_Witness ==
    /\ pc = "sweep"
    /\ ~call.resize
    /\ processed_pixels = 1
    /\ \E k \in 1..Len(step.writes) : \E c \in 1..3 :
          LET wr == step.writes[k]
              sum == 16 * call.image.px[<<wr.ny, wr.nx>>][c] + wr.amount[c]
          IN  \/ sum > 4080 /\ image_array[<<wr.ny, wr.nx>>][c] = 4080
              \/ sum < 0 /\ image_array[<<wr.ny, wr.nx>>][c] = 0

\* pixel p = <<row, column>> comes before pixel q in row-major order
BeforeInRowMajor(p, q) == p[1] < q[1] \/ (p[1] = q[1] /\ p[2] < q[2])

\* the image of the call with source pixel q given the colour col
WithPixel(q, col) == [call.image EXCEPT !.px = [call.image.px EXCEPT ![q] = col]]

\* the output before a pixel is the same whatever colour that pixel has in
\* the source
IndependentOfLaterPixels ==
    \A q \in Pixels(width, height) : \A col \in PixelColors \ {call.image.px[q]} :
       LET out == dither_alone(WithPixel(q, col)).px
       IN  \A p \in Pixels(width, height) :
              BeforeInRowMajor(p, q) => out[p] = output_array[p]

\* the k-th step visits the k-th pixel in row-major order, a pixel not
\* visited before; it writes only cells that are not visited, and leaves the
\* working value of every visited cell, its own included, as it is
VisitsInRowMajorOrder ==
    IsSweepStep =>
       /\ <<y, x>> \notin DOMAIN visited_rgb
       /\ y * width + x = processed_pixels
       /\ \A k \in 1..Len(step'.writes) :
             <<step'.writes[k].ny, step'.writes[k].nx>> \notin DOMAIN visited_rgb'
       /\ \A p \in DOMAIN visited_rgb' : image_array'[p] = image_array[p]

\* C25: dither_image visits every pixel exactly once in row-major order; the
\* error of a pixel is added only to pixels not visited yet, so the working
\* value of a pixel does not change after its visit, and the output at a
\* pixel does not depend on a source pixel that comes after it.
C25_RowMajorCausality ==
    /\ [][VisitsInRowMajorOrder]_vars
    /\ [](pc = "done" => /\ DOMAIN visited_rgb = Pixels(width, height)
                         /\ processed_pixels = width * height
                         /\ IndependentOfLaterPixels)

\* a finished sweep over at least two rows in which error changed a pixel
\* before its visit, and in which another colour of some source pixel would
\* have changed the output at or after that pixel
C25_Witness ==
    /\ pc = "done"
    /\ height >= 2 /\ width >= 2
    /\ \E p \in DOMAIN visited_rgb : visited_rgb[p] # call.image.px[p]
    /\ \E q \in Pixels(width, height) : \E col \in PixelColors :
          dither_alone(WithPixel(q, col)).px # output_array

\* the image validated last is accepted
Accepted == validation.is_valid

\* the image is an image of at least one pixel in a mode the ditherer takes
UsableImage ==
    /\ ~validation.none
    /\ validation.size[1] # 0 /\ validation.size[2] # 0
    /\ validation.mode \in {"RGB", "RGBA", "L", "P"}

OneWorkerAtATime ==
    /\ gui.threads <= 1
    /\ gui.threads = 1 => gui.processing
    /\ Len(gui.result_queue) <= 1

\* while a run is in progress no command starts a run or changes the image
\* the worker reads, a command that returned at its guard changed nothing but
\* the record of its return, and the run ends only in the monitor, in the
\* branch that took the result of that run off the result queue (after its
\* message box, if it shows one) and after the worker of the run ended
RunIsExclusive ==
    gui.processing =>
       /\ gui'.run = gui.run
       /\ gui'.threads <= gui.threads
       /\ gui'.current_image = gui.current_image
       /\ gui'.returned \notin {"", gui.returned} =>
             /\ gui' = [gui EXCEPT !.returned = gui'.returned]
             /\ UNCHANGED dithererVars
       /\ gui'.dialog # gui.dialog /\ gui'.dialog # "" =>
             /\ gui.result_queue # <<>>
             /\ Head(gui.result_queue).run = gui.run
             /\ gui'.result_queue = Tail(gui.result_queue)
       /\ ~gui'.processing =>
             /\ gui.monitor = "results"
             /\ gui.threads = 0
             /\ \/ gui.dialog # ""
                \/ /\ gui.result_queue # <<>>
                   /\ Head(gui.result_queue).run = gui.run
                   /\ gui'.result_queue = Tail(gui.result_queue)

\* C27: at most one worker thread runs at any time: while processing is True
\* start_dithering and generate_comparison return without effect and
\* load_image is refused, so that the image of the run cannot change, and
\* processing becomes False only when the monitor takes the result of the
\* running worker off the result queue.
C27_OneWorkerAtATime ==
    /\ [](gui.pc = "ready" => OneWorkerAtATime)
    /\ [][RunIsExclusive]_vars

\* during a comparison run, whose Dither button stays enabled, the user
\* clicked Dither and the command returned at its guard
C27_Witness ==
    /\ gui.processing
    /\ gui.threads = 1
    /\ gui.worker.kind = "comparison"
    /\ gui.worker.at = "sweep"
    /\ gui.returned = "start_dithering"

\* a dither run is in progress: start_dithering set the bar to 0 and the
\* monitor has not handled the result of the run
DitherRunInProgress == gui.pc = "ready" /\ gui.processing /\ gui.kind = "dither"

\* C28: from the reset of the progress bar by start_dithering until the
\* result of that run is handled, the bar shows 0 or a percentage reported by
\* the worker of that run, never one of an earlier run, and it never
\* decreases.
C28_BarShowsOnlyTheCurrentRun ==
    /\ [](DitherRunInProgress => gui.progress_var.run = gui.run)
    /\ [][(DitherRunInProgress /\ gui'.processing) =>
             gui'.progress_var.percent >= gui.progress_var.percent]_vars

\* C29: whenever no run is in progress and a dithered result exists, the
\* Save button is enabled.
C29_SaveEnabledWhenResultExists ==
    (gui.pc = "ready" /\ ~gui.processing /\ ~gui.dithered_image.none) =>
        gui.save_btn = "normal"

\* a run is in progress
RunInProgress == gui.pc = "ready" /\ gui.processing

\* no run is in progress and both buttons that start one are enabled
RunEnded ==
    /\ gui.pc = "ready"
    /\ ~gui.processing
    /\ gui.dither_btn = "normal"
    /\ gui.comparison_btn = "normal"

\* the monitor is not waiting for the user to close a message box
NoMessageBox == gui.dialog = ""

\* the monitor is waiting for the user to close a message box
MessageBoxOpen == gui.dialog # ""

\* a worker thread ends in the step in which it puts one result of its run
\* on the result queue, and nothing else puts a result there
OneResultPerWorker ==
    /\ gui'.threads < gui.threads =>
          /\ gui'.result_queue # <<>>
          /\ gui'.result_queue =
                Append(gui.result_queue, gui'.result_queue[Len(gui'.result_queue)])
          /\ gui'.result_queue[Len(gui'.result_queue)].run = gui.worker.run
          /\ gui'.result_queue[Len(gui'.result_queue)].type \in
                {"dither_complete", "comparison_complete", "error"}
    /\ Len(gui'.result_queue) > Len(gui.result_queue) => gui'.threads < gui.threads

\* C30 as stated: every worker posts exactly one result, and under fair
\* scheduling of the worker and of the monitor tick every run ends with
\* processing False and the Dither and Comparison buttons enabled.
C30_EveryRunEnds ==
    /\ [][OneResultPerWorker]_vars
    /\ RunInProgress ~> RunEnded

\* C30: every worker posts exactly one result, also when the call of the
\* ditherer raises, and under fair scheduling of the worker and of the
\* monitor tick every run ends with processing False and the Dither and
\* Comparison buttons enabled, provided the user closes the message box that
\* the monitor shows for a comparison and for an error.
C30_EveryRunEndsOnceBoxesAreClosed ==
    /\ [][OneResultPerWorker]_vars
    /\ ([]<>NoMessageBox) => (RunInProgress ~> RunEnded)

\* a run whose call of the ditherer raised has ended: the error was shown,
\* the box closed, and both buttons are enabled again
C30_Witness ==
    /\ RunEnded
    /\ pc = "error"
    /\ gui.run >= 1
    /\ gui.threads = 0
    /\ gui.result_queue = <<>>

====
